---- MODULE Spec2Model ----
(***************************************************************************)
(* Focus-context stack of the InteractionManager, with the part of the     *)
(* Interactive element and of the browser's focus handling it relies on.   *)
(* Every manager method is an operator over a record m holding the         *)
(* manager's fields; an action applies one public operation to the         *)
(* current fields and stores the result.                                   *)
(***************************************************************************)
EXTENDS Integers, Sequences, FiniteSets, TLC

VARIABLES contexts, baselineContext, currentContext, current, activeElement,
          enabled, hidden, opts, removed, lastCall, pc,
          controlsListener, useDwell, alwaysDwell, dwellTimeout, timeouts,
          returned,
          interactives, used, idsForRemoval, pressed, emitted, listeners,
          controller, currentDrag, keyboardContext, held, tested, cancelled,
          gridContext,
          contextStack, jsContext, jsListeners, quick, keyCall

\* The manager's fields, the document's focus and the record of the last call
managerVars == <<contexts, baselineContext, currentContext, current, activeElement,
                 enabled, hidden, opts, removed, lastCall, pc,
                 controlsListener, useDwell, alwaysDwell, dwellTimeout, timeouts,
                 returned>>

\* The pointer fields of the elements, the idTracker, the pointers that are
\* down and what the last event made the elements emit
pointerVars == <<interactives, used, idsForRemoval, pressed, emitted, listeners>>

\* The drag controller built on element Dragged: which it is, the fields of
\* DropAreaDrag and KeyboardFreeDrag, what the drop test of the last event
\* answered, and whether cancel() was called since the last drag started
dragVars == <<controller, currentDrag, keyboardContext, held, tested, cancelled>>

\* The Keyboard: its context stack, the context KeyboardJS is in, the
\* bindings KeyboardJS holds (pairs of a context and a key), the quick
\* contexts whose Disposable is not disposed yet, each with the stack and the
\* context as addQuickContext found them, and the last call made on it
keyboardVars == <<contextStack, jsContext, jsListeners, quick, keyCall>>

vars == <<managerVars, pointerVars, dragVars, gridContext, keyboardVars>>

(* ------------------------------ bounds -------------------------------- *)

\* Most contexts the stack may hold: a pushing call is not made beyond it.
MaxDepth == 2

\* Most pointers that are down at a time
MaxPointers == 2

\* Most pointers that are down at a time where a drag controller is built
MaxDragPointers == 1

\* Most dwell timers that are set and have neither fired nor been cleared:
\* no element is focused beyond it
MaxTimeouts == 2

\* Most contexts the Keyboard's stack may hold, and most quick contexts whose
\* Disposable is kept at a time
MaxKeyDepth == 2
MaxQuick == 2

\* Most columns and rows of a grid: grid.length and grid[0].length
MaxGridWidth == 3
MaxGridHeight == 2

(* ----------------------------- the elements --------------------------- *)

\* null / undefined where an Interactive is expected
NoItem == "none"

\* The Interactives the application constructed.
Items == {"a", "b", "p", "g", "c"}

\* The two keyboard-only exit elements enterGroup creates for the context
\* pushed at stack position k (1-based); side is "a" (front) or "b" (back).
ExitItem(k, side) == "exit" \o ToString(k) \o side

Sentinels == {ExitItem(k, side) : k \in 1..(MaxDepth + 1), side \in {"a", "b"}}

IsSentinel(item) == item \in Sentinels

\* opts.pointerOnly
pointerOnly(item) == item = "p"

\* opts.keyboardOnly: only the exit elements are built with it
keyboardOnly(item) == IsSentinel(item)

\* The Interactive the application put in grid[x][y], and the StandaloneGroup
\* the GridContext builds for column x
Cell(x, y) == "cell" \o ToString(x) \o ToString(y)
ColumnGroup(x) == "column" \o ToString(x)

\* The items of column x of a grid from the top, cells holding the places
\* that are no gaps
RECURSIVE ColumnFrom(_, _, _, _)
ColumnFrom(cells, height, x, y) ==
    IF y >= height THEN <<>>
    ELSE (IF <<x, y>> \in cells THEN <<Cell(x, y)>> ELSE <<>>)
         \o ColumnFrom(cells, height, x, y + 1)

\* opts.childContext, an array; <<>> stands for null. A column group of a
\* GridContext has the items of its column
childContext(item) ==
    IF item = "g" THEN <<"c", "b">>
    ELSE IF item = "outer" THEN <<"a", "inner">>
    ELSE IF item = "inner" THEN <<"b", "outer">>
    ELSE IF item \in DOMAIN gridContext.columns THEN gridContext.columns[item]
    ELSE <<>>

isGroup(item) == childContext(item) # <<>>

\* Interactive.focusable: _visible && _enabled
focusable(m, item) == item \notin m.hidden

(* ------------------------------ helpers ------------------------------- *)

Range(s) == {s[k] : k \in DOMAIN s}

\* Array.prototype.includes
Includes(s, x) == \E k \in DOMAIN s : s[k] = x

\* Array.prototype.indexOf, 0-based, -1 when absent
IndexOf(s, x) ==
    IF Includes(s, x)
    THEN (CHOOSE k \in DOMAIN s : s[k] = x /\ \A j \in 1..(k - 1) : s[j] # x) - 1
    ELSE -1

\* contexts.findIndex(c => c.name === name), 0-based, -1 when absent
FindIndex(ctxs, name) ==
    IF \E k \in DOMAIN ctxs : ctxs[k].name = name
    THEN (CHOOSE k \in DOMAIN ctxs :
            ctxs[k].name = name /\ \A j \in 1..(k - 1) : ctxs[j].name # name) - 1
    ELSE -1

\* hasContext(name)
hasContext(m, name) == \E k \in DOMAIN m.contexts : m.contexts[k].name = name

\* The elements that are children of the accessibility div, which are also the
\* elements whose onFocus/onBlur the manager listens to (currentDisposable).
Attached(m) ==
    Range(m.currentContext.items) \cup Range(m.currentContext.extendedFamily)

\* focusEnabled getter
focusEnabled(m) == m.enabled \/ m.opts.focusWhenDisabled

(* ----------------------- focus and blur events ------------------------ *)

\* The ids of the timers that are set; a timer is the pair of its id and of
\* the element whose focus set it
TimeoutIds(m) == {t[1] : t \in m.timeouts}

\* setTimeout: an id that no timer that is set has and that the manager
\* does not hold
NewTimeout(m) ==
    CHOOSE id \in 1..(MaxTimeouts + 2) :
        /\ id \notin TimeoutIds(m) \cup {m.dwellTimeout}
        /\ \A j \in 1..(id - 1) : j \in TimeoutIds(m) \cup {m.dwellTimeout}

\* clearTimeout(id)
clearTimeout(m, id) == [m EXCEPT !.timeouts = {t \in @ : t[1] # id}]

\* onBlurred that leaves the dwell timer set
onBlurred_keepsTimeout(m, target) ==
    IF m.current = target THEN [m EXCEPT !.current = NoItem] ELSE m

onBlurred(m, target) ==
    IF m.current = target
    THEN LET m1 == [m EXCEPT !.current = NoItem]
         IN IF m1.dwellTimeout # 0
            THEN [clearTimeout(m1, m1.dwellTimeout) EXCEPT !.dwellTimeout = 0]
            ELSE m1
    ELSE m

onFocused(m, target) ==
    IF ~focusEnabled(m) THEN m
    ELSE LET m1 == [m EXCEPT !.current = target]
         IN IF ~m1.enabled THEN m1
            ELSE IF (target \in m1.alwaysDwell \/ m1.useDwell) /\ target \notin m1.isBeingHeld
            THEN LET id == NewTimeout(m1)
                 IN [m1 EXCEPT !.dwellTimeout = id, !.timeouts = @ \cup {<<id, target>>}]
            ELSE m1

\* Interactive.blur(): htmlElement.blur() fires the blur event only on the
\* element that holds the document's focus.
Blur(m, target) ==
    IF target # NoItem /\ m.activeElement = target
    THEN LET m1 == [m EXCEPT !.activeElement = NoItem]
         IN IF target \in Attached(m) THEN onBlurred(m1, target) ELSE m1
    ELSE m

\* clearFocus()
clearFocus(m) == [Blur(m, m.current) EXCEPT !.current = NoItem]

\* htmlElement.focus() takes effect on an element of the document that is
\* displayed (display: block) and does not hold the focus already.
CanFocus(m, target) ==
    /\ target # NoItem
    /\ target \in Attached(m)
    /\ focusable(m, target)
    /\ m.activeElement # target

\* Interactive.focus() on an element without an exit handler: the element that
\* held the focus gets its blur event, then the target its focus event.
FocusPlain(m, target) ==
    IF ~CanFocus(m, target) THEN m
    ELSE LET old == m.activeElement
             m1 == IF old # NoItem /\ old \in Attached(m) THEN onBlurred(m, old) ELSE m
         IN onFocused([m1 EXCEPT !.activeElement = target], target)

(* ------------------------ generating a context ------------------------ *)

\* What is left of the lists when the calls of recursiveAddChildren nest
\* without end and the engine throws its RangeError
Overflow == [added |-> <<>>, fullFamily |-> <<"RangeError">>]

\* One child of the loop is added to the lists
AddChild(acc, child) ==
    IF acc = Overflow THEN Overflow
    ELSE IF Includes(acc.added, child) \/ isGroup(child) \/ keyboardOnly(child)
    THEN acc
    ELSE [added |-> Append(acc.added, child),
          fullFamily |-> Append(acc.fullFamily, child)]

RECURSIVE recursiveAddChildren(_, _, _)
RECURSIVE AddChildrenFrom(_, _, _, _)

\* The loop body of recursiveAddChildren over items[k..]; acc holds
\* existingList (added) and fullFamily, calls the groups whose calls of
\* recursiveAddChildren have not returned.
AddChildrenFrom(items, k, acc, calls) ==
    IF k > Len(items) \/ acc = Overflow THEN acc
    ELSE AddChildrenFrom(items, k + 1,
                         AddChild(recursiveAddChildren(items[k], acc, calls), items[k]),
                         calls)

\* recursiveAddChildren(item, existingList, fullFamily).  The call for a
\* group is made whatever the lists hold, so a call for a group that is made
\* inside the call for the same group is made again inside itself, without end.
recursiveAddChildren(item, acc, calls) ==
    IF ~isGroup(item) \/ acc = Overflow THEN acc
    ELSE IF item \in calls THEN Overflow
    ELSE AddChildrenFrom(childContext(item), 1, acc, calls \cup {item})

RECURSIVE ListChildrenFrom(_, _, _)
\* The loop of generateContext over the tabbable list: groups bring in their
\* descendants.
ListChildrenFrom(list, k, acc) ==
    IF k > Len(list) \/ acc = Overflow THEN acc
    ELSE ListChildrenFrom(list, k + 1, recursiveAddChildren(list[k], acc, {}))

RECURSIVE ParentItemsFrom(_, _, _)
\* The loop of recursiveAddParents over the parent's items.
ParentItemsFrom(items, k, acc) ==
    IF k > Len(items) \/ acc = Overflow THEN acc
    ELSE ParentItemsFrom(items, k + 1,
                         AddChild(recursiveAddChildren(items[k], acc, {}), items[k]))

RECURSIVE recursiveAddParents(_, _, _)
\* parent is the stack position (1-based) of the parent context, 0 for null.
recursiveAddParents(ctxs, parent, acc) ==
    IF parent = 0 \/ acc = Overflow THEN acc
    ELSE recursiveAddParents(ctxs, ctxs[parent].parent,
                             ParentItemsFrom(ctxs[parent].items, 1, acc))

\* removeCurrentContext(keep): the listeners are reset and every element of
\* the current context but keep leaves the document; an element that leaves
\* the document loses the document's focus without the manager hearing of it.
removeCurrentContext(m, keep) ==
    IF m.activeElement \in Attached(m) \ {keep}
    THEN [m EXCEPT !.activeElement = NoItem]
    ELSE m

\* The tabbable list generateContext composes for a context.
ComposeList(m, ctx) ==
    IF ctx.allowBaseline
    THEN m.baselineContext.prepend \o ctx.items \o m.baselineContext.append
    ELSE ctx.items

\* The end of generateContext: the lists are the current context's, unless
\* the RangeError of a recursion without end left the call unfinished
Generated(m, list, family) ==
    IF family = Overflow THEN [m EXCEPT !.pc = "overflow"]
    ELSE [m EXCEPT !.currentContext = [items |-> list,
                                       extendedFamily |-> family.fullFamily]]

\* generateContext(current).  The kept element is appended to the div again;
\* whether the browser leaves the document's focus on an element that is
\* re-inserted is the browser's choice (m.env.keepsFocus).
generateContext(m, ctx) ==
    LET list == ComposeList(m, ctx)
        keep == IF m.current # NoItem /\ Includes(list, m.current) THEN m.current ELSE NoItem
        m1   == removeCurrentContext(m, keep)
        dom  == IF m1.activeElement # NoItem /\ m1.activeElement = keep /\ ~m.env.keepsFocus
                THEN NoItem ELSE m1.activeElement
    IN Generated([m1 EXCEPT !.activeElement = dom], list,
                 recursiveAddParents(m.contexts, ctx.parent,
                    ListChildrenFrom(list, 1, [added |-> list, fullFamily |-> <<>>])))

\* The InternalContext of generateBlankWithBaseline
BlankContext ==
    [name |-> "___blank", items |-> <<>>, allowBaseline |-> TRUE, parent |-> 0,
     hooks |-> FALSE, esc |-> FALSE, exits |-> FALSE, group |-> NoItem, disposals |-> 0]

generateBlankWithBaseline(m) == generateContext(m, BlankContext)

\* The tail of popContext: regenerate from the new top, or from the baseline.
Regenerate(m) ==
    IF Len(m.contexts) = 0 THEN generateBlankWithBaseline(m)
    ELSE generateContext(m, m.contexts[Len(m.contexts)])

(* --------------------------- the context stack ------------------------ *)

\* cleanup.dispose() of a context taken off the stack: removed records how
\* many times the cleanup group of each context taken off was disposed.
Disposed(ctx) == ctx.disposals + 1

\* A context taken off the stack whose cleanup nobody disposed.
Dropped(ctx) == ctx.disposals

DisposeAll(ctxs) == {Disposed(ctxs[k]) : k \in DOMAIN ctxs}

DropAll(ctxs) == {Dropped(ctxs[k]) : k \in DOMAIN ctxs}

\* popContext that removes the top context when no context has the name
popContext_missingPopsTop(m, name, keepNamed) ==
    LET m1 == clearFocus(m)
        n  == Len(m1.contexts)
        index == IF name # "" THEN FindIndex(m1.contexts, name) ELSE -1
    IN IF index >= 0
       THEN LET target == IF ~keepNamed THEN index ELSE index + 1
            IN Regenerate([m1 EXCEPT
                   !.contexts = SubSeq(m1.contexts, 1, target),
                   !.removed = @ \cup DisposeAll(SubSeq(m1.contexts, target + 1, n))])
       ELSE IF n = 0 THEN Regenerate(m1)
            ELSE Regenerate([m1 EXCEPT
                    !.contexts = SubSeq(m1.contexts, 1, n - 1),
                    !.removed = @ \cup {Disposed(m1.contexts[n])}])

\* popContext that removes the named context whatever keepNamed says
popContext_ignoreKeep(m, name, keepNamed) ==
    LET m1 == clearFocus(m)
        n  == Len(m1.contexts)
    IN IF name # ""
       THEN LET index == FindIndex(m1.contexts, name)
            IN IF index < 0 THEN m1
               ELSE Regenerate([m1 EXCEPT
                       !.contexts = SubSeq(m1.contexts, 1, index),
                       !.removed = @ \cup DisposeAll(SubSeq(m1.contexts, index + 1, n))])
       ELSE IF n = 0 THEN Regenerate(m1)
            ELSE Regenerate([m1 EXCEPT
                    !.contexts = SubSeq(m1.contexts, 1, n - 1),
                    !.removed = @ \cup {Disposed(m1.contexts[n])}])

\* popContext(name?, keepNamed); "" stands for every falsy name (omitted, '').
popContext(m, name, keepNamed) ==
    LET m1 == clearFocus(m)
        n  == Len(m1.contexts)
    IN IF name # ""
       THEN LET index == FindIndex(m1.contexts, name)
            IN IF index < 0 THEN m1
               ELSE LET target == IF ~keepNamed THEN index ELSE index + 1
                    IN Regenerate([m1 EXCEPT
                          !.contexts = SubSeq(m1.contexts, 1, target),
                          !.removed = @ \cup DisposeAll(SubSeq(m1.contexts, target + 1, n))])
       ELSE IF n = 0 THEN Regenerate(m1)
            ELSE Regenerate([m1 EXCEPT
                    !.contexts = SubSeq(m1.contexts, 1, n - 1),
                    !.removed = @ \cup {Disposed(m1.contexts[n])}])

(* ----------------------------- the Keyboard --------------------------- *)

\* KeyboardJS's first context, which the Keyboard keeps as baseContext; its
\* bindings fire in every context
baseContext == "global"

\* KeyboardJS.setContext(name)
setContext(k, name) == [k EXCEPT !.jsContext = name]

\* fromKey(key, down, up): KeyboardJS.bind in the context KeyboardJS is in
fromKey(k, key) == [k EXCEPT !.jsListeners = @ \cup {<<k.jsContext, key>>}]

\* addForContext(context, config): KeyboardJS.withContext sets the context,
\* runs the callback and sets the context back to what it was
addForContext(k, context, key) ==
    setContext(fromKey(setContext(k, context), key), k.jsContext)

\* The Disposable of fromKey: unbind in the binding's context
unbind(k, context, key) ==
    setContext([setContext(k, context) EXCEPT !.jsListeners = @ \ {<<context, key>>}],
               k.jsContext)

\* Keyboard.popContext(name?, keepNamed); "" stands for an omitted name
Keyboard_popContext(k, name, keepNamed) ==
    LET index == IndexOf(k.contextStack, name)
        stack == IF name # ""
                 THEN SubSeq(k.contextStack, 1, IF ~keepNamed THEN index ELSE index + 1)
                 ELSE SubSeq(k.contextStack, 1, Len(k.contextStack) - 1)
    IN IF name # "" /\ index < 0 THEN k
       ELSE setContext([k EXCEPT !.contextStack = stack],
                       IF Len(stack) > 0 THEN stack[Len(stack)] ELSE baseContext)

\* Keyboard.activateContext(context)
Keyboard_activateContext(k, context) ==
    IF IndexOf(k.contextStack, context) >= 0
    THEN Keyboard_popContext(k, context, FALSE)
    ELSE setContext([k EXCEPT !.contextStack = Append(@, context)], context)

\* Keyboard.clearContexts()
Keyboard_clearContexts(k) == setContext([k EXCEPT !.contextStack = <<>>], baseContext)

\* String(Math.random()): a name no context carries
QuickName(k) ==
    LET taken == Range(k.contextStack) \cup {l[1] : l \in k.jsListeners}
                    \cup {q.name : q \in k.quick}
        n == CHOOSE n \in 0..Cardinality(taken) :
                /\ ("0." \o ToString(n)) \notin taken
                /\ \A j \in 0..(n - 1) : ("0." \o ToString(j)) \in taken
    IN "0." \o ToString(n)

\* addQuickContext(config): the Disposable it returns is kept in quick
addQuickContext(k, key) ==
    LET name == QuickName(k)
        k1   == addForContext(k, name, key)
    IN [k1 EXCEPT !.quick = @ \cup {[name |-> name, key |-> key,
                                      stack |-> k.contextStack, context |-> k.jsContext]}]

\* dispose() of the Disposable addQuickContext returned: the listeners are
\* unbound, then popContext(name)
disposeQuick(k, q) ==
    Keyboard_popContext([unbind(k, q.name, q.key) EXCEPT !.quick = @ \ {q}], q.name, FALSE)

\* The bindings of a key that fire when it is pressed: those of the context
\* KeyboardJS is in and those of its first context
Fires(k, key) == {l \in k.jsListeners : l[2] = key /\ l[1] \in {k.jsContext, baseContext}}

(* ------------------------ the keys of the manager --------------------- *)

\* attachControls(): the tab and shift + tab bindings are added anew
attachControls(m) == [m EXCEPT !.controlsListener = TRUE]

\* detachControls()
detachControls(m) == [m EXCEPT !.controlsListener = FALSE]

\* isLockedIn getter
isLockedIn(m) == m.controlsListener

\* "since we are interacting with the game, lock the player back in"
lockBackIn(m) ==
    IF m.opts.control = "lockEsc" /\ ~isLockedIn(m) THEN attachControls(m) ELSE m

\* handleEsc that releases the lock under both locked-in strategies
handleEsc_anyLock(m) ==
    IF Len(m.contexts) = 0 THEN m
    ELSE IF m.contexts[Len(m.contexts)].parent # 0 THEN popContext(m, "", FALSE)
    ELSE IF m.opts.control # "default" /\ isLockedIn(m) THEN detachControls(m)
    ELSE clearFocus(m)

\* handleEsc(), the ESC binding the constructor adds
handleEsc(m) ==
    IF Len(m.contexts) = 0 THEN m
    ELSE IF m.contexts[Len(m.contexts)].parent # 0 THEN popContext(m, "", FALSE)
    ELSE IF m.opts.control = "lockEsc" /\ isLockedIn(m) THEN detachControls(m)
    ELSE clearFocus(m)

\* clearContexts()
clearContexts(m) ==
    LET m1 == clearFocus(m)
    IN generateBlankWithBaseline([m1 EXCEPT !.contexts = <<>>,
                                            !.removed = @ \cup DropAll(m1.contexts)])

\* setBaseline that stores the lists and regenerates nothing
setBaseline_noRegenerate(m, prepend, append) ==
    [m EXCEPT !.baselineContext = [prepend |-> prepend, append |-> append]]

\* setBaseline(prepend, append)
setBaseline(m, prepend, append) ==
    LET m1 == [m EXCEPT !.baselineContext = [prepend |-> prepend, append |-> append]]
        n  == Len(m1.contexts)
    IN IF n = 0 THEN generateBlankWithBaseline(m1)
       ELSE IF m1.contexts[n].allowBaseline THEN generateContext(m1, m1.contexts[n])
       ELSE m1

\* context.allowBaseline ?? true, the option being "true", "false" or "undefined"
AllowBaselineOf(ctx) == ctx.allowBaseline # "false"

RECURSIVE internalActivate(_, _, _)
RECURSIVE replaceCurrentContext(_, _)

\* internalActivate without the lookup of the name: it always pushes
internalActivate_alwaysPush(m, ctx, parent) ==
    LET m1 == clearFocus(m)
        internal == [name |-> ctx.name, items |-> ctx.items,
                     allowBaseline |-> AllowBaselineOf(ctx), parent |-> parent,
                     hooks |-> ctx.hooks, esc |-> FALSE, exits |-> FALSE,
                     group |-> NoItem, disposals |-> 0]
        m2 == [m1 EXCEPT !.contexts = Append(@, internal)]
    IN generateContext(m2, internal)

\* internalActivate(context, parent); parent is a stack position, 0 for
\* null or undefined.
internalActivate(m, ctx, parent) ==
    LET m1 == clearFocus(m)
    IN IF hasContext(m1, ctx.name)
       THEN replaceCurrentContext(popContext(m1, ctx.name, FALSE), ctx)
       ELSE LET internal == [name |-> ctx.name, items |-> ctx.items,
                             allowBaseline |-> AllowBaselineOf(ctx), parent |-> parent,
                             hooks |-> ctx.hooks, esc |-> FALSE, exits |-> FALSE,
                             group |-> NoItem, disposals |-> 0]
                m2 == [m1 EXCEPT !.contexts = Append(@, internal)]
            IN generateContext(m2, internal)

\* activateContext(context, asChild) for a FullFocusContext or ComplexFocusContext
activateContext(m, ctx, asChild) ==
    internalActivate(m, ctx, IF asChild THEN Len(m.contexts) ELSE 0)

\* The end of replaceCurrentContext: a focused element that is not in the
\* current context any more loses the focus
DropStaleFocus(m) ==
    IF ~Includes(m.currentContext.items, m.current) THEN clearFocus(m) ELSE m

\* replaceCurrentContext that returns when it finds no context to replace
replaceCurrentContext_noActivate(m, newContext) ==
    LET n   == Len(m.contexts)
        idx == IF newContext.name # "" THEN FindIndex(m.contexts, newContext.name) + 1
               ELSE n
    IN IF idx = 0 THEN m
       ELSE LET isActive == idx = n
                keep == IF m.current # NoItem /\ Includes(newContext.items, m.current)
                        THEN m.current ELSE NoItem
                m1 == IF isActive THEN removeCurrentContext(m, keep) ELSE m
                m2 == [m1 EXCEPT !.contexts[idx].items = newContext.items]
            IN DropStaleFocus(IF isActive THEN generateContext(m2, m2.contexts[idx]) ELSE m2)

\* replaceCurrentContext(newContext)
replaceCurrentContext(m, newContext) ==
    LET n   == Len(m.contexts)
        idx == IF newContext.name # "" THEN FindIndex(m.contexts, newContext.name) + 1
               ELSE n
    IN IF idx = 0 THEN activateContext(m, newContext, FALSE)
       ELSE LET isActive == idx = n
                keep == IF m.current # NoItem /\ Includes(newContext.items, m.current)
                        THEN m.current ELSE NoItem
                m1 == IF isActive THEN removeCurrentContext(m, keep) ELSE m
                m2 == [m1 EXCEPT !.contexts[idx].items = newContext.items]
            IN DropStaleFocus(IF isActive THEN generateContext(m2, m2.contexts[idx]) ELSE m2)

(* ------------------------ focus with exit elements -------------------- *)

\* The group item the exit element was built for by enterGroup.
ExitOwner(m, target) ==
    LET k == CHOOSE k \in DOMAIN m.contexts :
                m.contexts[k].exits /\ target \in {ExitItem(k, "a"), ExitItem(k, "b")}
    IN m.contexts[k].group

\* The manager's onFocus listener of an exit element, called after the
\* element's own listener when the emitter still calls it
LateListener(m, target) == IF m.env.lateListener THEN onFocused(m, target) ELSE m

\* Interactive.focus().  An exit element's own onFocus listener (popContext,
\* then item.focus()) was added before the manager's; whether the emitter
\* still calls the manager's listener after the first one disposed the
\* element and reset the listeners is the emitter's choice (m.env.lateListener).
Focus(m, target) ==
    IF ~IsSentinel(target) THEN FocusPlain(m, target)
    ELSE IF ~CanFocus(m, target) THEN m
    ELSE LET old == m.activeElement
             m1 == IF old # NoItem /\ old \in Attached(m) THEN onBlurred(m, old) ELSE m
             m2 == [m1 EXCEPT !.activeElement = target]
         IN LateListener(FocusPlain(popContext(m2, "", FALSE), ExitOwner(m2, target)),
                         target)

\* set focused(target)
setFocused(m, target) ==
    IF target = m.current THEN m
    ELSE LET m1 == IF m.current # NoItem THEN Blur(m, m.current) ELSE m
         IN IF target # NoItem THEN Focus(m1, target) ELSE m1

\* String(Math.random()): a name no context of the stack carries
TempName(m) ==
    LET k == CHOOSE k \in 0..Len(m.contexts) :
                /\ ~hasContext(m, "0." \o ToString(k))
                /\ \A j \in 0..(k - 1) : hasContext(m, "0." \o ToString(j))
    IN "0." \o ToString(k)

\* No overrideContext is passed
NoOverride ==
    [kind |-> "none", name |-> "", items |-> <<>>, allowBaseline |-> "undefined",
     hooks |-> FALSE, exitRule |-> "undefined"]

\* enterGroup(item, overrideContext?); the string it returns is kept in
\* returned.  The child context of an element is an array; a complex context
\* comes as overrideContext
\* The end of enterGroup, after internalActivate.  For an array or an exit rule
\* (modified) the ESC binding and the exit elements go to the new context's
\* cleanup and the first item is focused.
EnterGroupEnd(m1, item, setUpExit, modified, firstItem, tempName) ==
    IF modified
    THEN [Focus([m1 EXCEPT !.contexts[Len(m1.contexts)].esc = TRUE,
                           !.contexts[Len(m1.contexts)].exits = setUpExit,
                           !.contexts[Len(m1.contexts)].group = item], firstItem)
             EXCEPT !.returned = tempName]
    ELSE [m1 EXCEPT !.returned = tempName]

enterGroup(m, item, overrideContext) ==
    IF overrideContext.kind = "none" /\ childContext(item) = <<>> THEN m
    ELSE LET tempName  == TempName(m)
             context   == IF overrideContext.kind # "none" THEN overrideContext
                          ELSE [NoOverride EXCEPT !.kind = "array",
                                                  !.items = childContext(item)]
             isArray   == context.kind = "array"
             setUpExit == IF isArray THEN m.opts.groupEnd = "exit"
                          ELSE context.exitRule = "exit"
             pos       == Len(m.contexts) + 1
             first     == IF setUpExit THEN 1 ELSE 0
             items     == IF setUpExit
                          THEN <<ExitItem(pos, "a")>> \o context.items \o <<ExitItem(pos, "b")>>
                          ELSE context.items
             modifiedContext ==
                 IF isArray
                 THEN [name |-> tempName, items |-> items,
                       allowBaseline |-> "false", hooks |-> FALSE]
                 ELSE [name |-> context.name, items |-> items,
                       allowBaseline |-> context.allowBaseline, hooks |-> context.hooks]
         IN EnterGroupEnd(internalActivate(m, modifiedContext, Len(m.contexts)),
                          item, setUpExit, setUpExit \/ isArray, items[first + 1], tempName)

(* ------------------------------ tabbing ------------------------------- *)

\* The do-while test of next() and prev(), negated
Eligible(m, item) == item # NoItem /\ focusable(m, item) /\ ~pointerOnly(item)

\* The result of a loop that never ends
Hang == "hang"

\* The index step without the wrap-around at the ends of the array
StepIndex_noWrap(context, cur, dir) ==
    LET index == IndexOf(context, cur) + dir
    IN IF dir = 1 THEN (IF index >= Len(context) THEN Len(context) - 1 ELSE index)
       ELSE (IF index < 0 THEN 0 ELSE index)

\* One index step of next() (dir = 1) and of prev() (dir = -1), 0-based
StepIndex(context, cur, dir) ==
    LET index == IndexOf(context, cur) + dir
    IN IF dir = 1 THEN (IF index >= Len(context) THEN 0 ELSE index)
       ELSE (IF index < 0 THEN Len(context) - 1 ELSE index)

\* context[index]: undefined outside the array
At(context, index) ==
    IF index >= 0 /\ index < Len(context) THEN context[index + 1] ELSE NoItem

RECURSIVE Scan(_, _, _, _, _)
\* The do-while loop: it runs from cur until it reaches an eligible element.
\* The loop's only state is cur, so a value of cur that comes back means the
\* loop never ends.
Scan(m, context, cur, dir, seen) ==
    LET new == At(context, StepIndex(context, cur, dir))
    IN IF Eligible(m, new) THEN new
       ELSE IF new \in seen THEN Hang
       ELSE Scan(m, context, new, dir, seen \cup {new})

\* The element next() and prev() hand to the focused setter
TabTarget(m, dir) ==
    LET context == m.currentContext.items
    IN IF Len(context) = 1 THEN context[1]
       ELSE Scan(m, context, m.current, dir, {})

\* next(e) with dir = 1, prev(e) with dir = -1
tab(m, dir) ==
    IF ~focusEnabled(m) THEN m
    ELSE LET target == TabTarget(m, dir)
         IN IF target = Hang THEN [m EXCEPT !.pc = "hung"]
            ELSE setFocused(m, target)

(* --------------------------- pointer events --------------------------- *)

\* The elements the pointer events of the model reach
PointerItems == {"a", "b"}

\* activePointerId of an element no pointer is down on
NoPointer == -1

\* getId(ev) of a mouse event
MouseId == 1

\* The pointer ids of the events: the mouse and the touches, whose ids the
\* browser may hand out again once the touch has ended
PointerIds == {MouseId, 2, 3}

\* isTouch(ev)
isTouch(id) == id # MouseId

\* An element as its constructor leaves it, with the draggable option given
NewInteractive(draggable) ==
    [activePointerId |-> NoPointer, pointerIn |-> FALSE, currentDragType |-> "None",
     draggable |-> draggable, listening |-> FALSE]

\* What a handler does to its element: the element after it, the events it
\* emits, the ids it claims and frees at the idTracker
Handled(el, emits, claims, frees) ==
    [el |-> el, emits |-> emits, claims |-> claims, frees |-> frees]

Ignored(el) == Handled(el, {}, {}, {})

\* onPointerDown(ev) of the element under the pointer
onPointerDown(el, id, managerEnabled) ==
    IF ~managerEnabled \/ el.activePointerId >= 0 THEN Ignored(el)
    ELSE LET el1 == [el EXCEPT !.activePointerId = id, !.pointerIn = TRUE,
                               !.listening = TRUE]
         IN IF el.draggable = "None" \/ el.currentDragType # "None"
            THEN Handled(el1, {}, {id}, {})
            ELSE IF el.draggable = "DragOnly"
            THEN Handled([el1 EXCEPT !.currentDragType = "Held"],
                         {<<"dragStart", "Held">>}, {id}, {})
            ELSE Handled(el1, {}, {id}, {})

\* The test onPointerMove and onPointerUp start with: the event is not the
\* element's, as it is neither of its pointer nor, in a sticky tap, of a
\* pointer that no element has claimed
NotOurs(el, id, claimed) ==
    /\ el.activePointerId # id
    /\ el.currentDragType # "StickyTap" \/ id \in claimed

\* onPointerMove(ev); far tells that the pointer is minDragDist away from
\* where it went down
onPointerMove(el, id, far, managerEnabled, claimed) ==
    IF ~managerEnabled \/ NotOurs(el, id, claimed) \/ el.draggable = "None" THEN Ignored(el)
    ELSE LET starts == /\ el.currentDragType = "None"
                       /\ el.draggable \in {"DragOrClick", "DragWithStickyClick",
                                            "DragWithStickyClickTap"}
                       /\ far
             el1 == IF starts THEN [el EXCEPT !.currentDragType = "Held"] ELSE el
         IN Handled(el1,
                    (IF starts THEN {<<"dragStart", "Held">>} ELSE {}) \cup
                    (IF el1.currentDragType # "None"
                     THEN {<<"dragMove", el1.currentDragType>>} ELSE {}),
                    {}, {})

\* The end of onPointerUp and of onPointerCancel: the id is freed and the
\* window listeners are removed
CleanUp(el) ==
    [el EXCEPT !.activePointerId = NoPointer, !.listening = FALSE]

\* onPointerUp(ev)
onPointerUp(el, id, managerEnabled, claimed) ==
    IF NotOurs(el, id, claimed) THEN Ignored(el)
    ELSE IF el.currentDragType # "None"
    THEN Handled(CleanUp([el EXCEPT !.currentDragType = "None"]),
                 IF managerEnabled THEN {<<"dragStop", "None">>} ELSE {},
                 {}, {el.activePointerId})
    ELSE IF (el.pointerIn \/ isTouch(id)) /\ managerEnabled
    THEN IF ~isTouch(id) /\ el.draggable \in {"DragWithStickyClick", "DragWithStickyClickTap"}
         THEN Handled([el EXCEPT !.currentDragType = "StickyClick"],
                      {<<"dragStart", "StickyClick">>}, {}, {})
         ELSE IF isTouch(id) /\ el.draggable = "DragWithStickyClickTap"
         THEN Handled([el EXCEPT !.currentDragType = "StickyTap"],
                      {<<"dragStart", "StickyTap">>}, {}, {el.activePointerId})
         ELSE Handled(CleanUp(el),
                      IF el.draggable # "DragOnly" THEN {<<"onActivate", "None">>} ELSE {},
                      {}, {el.activePointerId})
    ELSE Handled(CleanUp(el), {}, {}, {el.activePointerId})

\* onPointerCancel(ev)
onPointerCancel(el, id, managerEnabled) ==
    IF el.activePointerId # id THEN Ignored(el)
    ELSE Handled(CleanUp([el EXCEPT !.currentDragType = "None"]),
                 IF el.currentDragType # "None" /\ managerEnabled
                 THEN {<<"dragStop", "None">>} ELSE {},
                 {}, {el.activePointerId})

\* A cancelDrag that leaves the element in its drag
cancelDrag_noCleanUp(el, keepIdClaimed) == Ignored(el)

\* cancelDrag(keepIdClaimed)
cancelDrag(el, keepIdClaimed) ==
    Handled(CleanUp([el EXCEPT !.currentDragType = "None"]), {}, {},
            IF ~keepIdClaimed /\ el.activePointerId > -1 THEN {el.activePointerId} ELSE {})

(* -------------------------- drag controllers -------------------------- *)

\* opts.interactive of the controller, and opts.dropAreas of a DropAreaDrag
Dragged == "a"
dropAreas == <<"b", "c">>

\* No controller, for the elements taken alone
NoController == [kind |-> "None", testDropAreas |-> FALSE]

\* dropContext of the DropAreaDrag constructor, includeTarget left undefined
dropContext ==
    [name |-> "dragDrop",
     items |-> IF Includes(dropAreas, Dragged) THEN dropAreas
               ELSE Append(dropAreas, Dragged),
     allowBaseline |-> "false", hooks |-> TRUE]

\* What hitTest and testDropAreas answered when no drop was tested
NoTest == [areas |-> {}, result |-> -1, ran |-> FALSE]

\* event.emit(...), kept in the record of what the step emitted
Emit(w, who, event, arg) == [w EXCEPT !.emitted = @ \cup {<<who, event, arg>>}]

\* StandardDrag.moveTarget(globalPos), bounds left null
moveTarget(w) == Emit(w, "target", "moved", "None")

\* start(target, type) of DropAreaDrag
start(w, type) == Emit([w EXCEPT !.currentDrag = type], "controller", "dragStarted", type)

\* items[i].visible && items[i].enabled
Shown(w, item) == item \notin w.m.hidden

\* end(target) of DropAreaDrag; w.hit holds what testDropAreas returns and
\* the 0-based indices of the items whose hitTest holds at the target
end(w) ==
    LET w1 == [w EXCEPT !.currentDrag = "None",
                        !.tested = [areas |-> w.hit.areas, result |-> w.hit.result,
                                    ran |-> TRUE]]
        items == dropContext.items
        found == { i \in 0..(Len(items) - 1) :
                     /\ items[i + 1] # Dragged
                     /\ Shown(w, items[i + 1])
                     /\ i \in w.hit.areas }
        first == CHOOSE i \in found : \A j \in found : i <= j
    IN IF w.controller.testDropAreas
       THEN IF w.hit.result >= 0
            THEN Emit(w1, "controller", "dragComplete", ToString(w.hit.result))
            ELSE Emit(w1, "controller", "dragFailed", "None")
       ELSE IF found # {}
            THEN Emit(w1, "controller", "dragComplete", ToString(first))
            ELSE Emit(w1, "controller", "dragFailed", "None")

\* The element takes what a handler of its own did: its fields, the ids
\* claimed and freed, and its place among the window's listeners
Own(w, item, h) ==
    [w EXCEPT !.interactives[item] = h.el,
              !.used = @ \cup h.claims,
              !.idsForRemoval = @ \cup h.frees,
              !.listeners = IF h.el.listening
                            THEN (IF Includes(@, item) THEN @ ELSE Append(@, item))
                            ELSE SelectSeq(@, LAMBDA i : i # item),
              !.emitted = @ \cup { <<item, e[1], e[2]>> : e \in h.emits }]

\* StandardDrag.cancel()
pointerCancel(w) == Own(w, Dragged, cancelDrag(w.interactives[Dragged], FALSE))

\* The element the application's dragStart listener hands the drag to
Recipient == "b"

\* The recipient's side of transferDrag(recipient)
Received(el, recipient) ==
    Handled([recipient EXCEPT !.activePointerId = el.activePointerId,
                              !.pointerIn = TRUE,
                              !.currentDragType = el.currentDragType,
                              !.listening = TRUE], {}, {}, {})

\* The giving element's side of transferDrag: cancelDrag(true)
Given(w, item) == Own(w, item, cancelDrag(w.interactives[item], TRUE))

\* item.transferDrag(recipient)
transferDrag(w, item, recipient) ==
    Given(Own(w, recipient, Received(w.interactives[item], w.interactives[recipient])),
          item)

\* The application's listener of dragStart calls transferDrag in this handler
Transfers(w, item, h) ==
    /\ w.controller.kind = "Transfer"
    /\ item = Dragged
    /\ \E e \in h.emits : e[1] = "dragStart"

\* What is left of a handler whose dragStart listener made the element idle:
\* it emits no dragMove, as currentDragType is None, and it frees the id -1
Interrupted(h) ==
    [h EXCEPT !.emits = {e \in @ : e[1] = "dragStart"},
              !.frees = IF @ = {} THEN {} ELSE {NoPointer}]

\* KeyboardFreeDrag.startDrag()
startDrag(w) ==
    Emit(Emit([w EXCEPT !.keyboardContext = TRUE], "keyboard", "dragStarted", "None"),
         "controller", "dragStarted", "Keyboard")

\* KeyboardFreeDrag.stopDrag(emit)
stopDrag(w, emit) ==
    LET w1 == [w EXCEPT !.keyboardContext = FALSE]
    IN IF emit THEN Emit(Emit(w1, "keyboard", "dragComplete", "None"),
                         "controller", "dragComplete", "None")
       ELSE w1

\* cancel() of the controller: DropAreaDrag.cancel(), UnifiedDrag.cancel()
cancel(w) ==
    IF w.controller.kind = "DropAreaDrag"
    THEN LET w1 == pointerCancel(w)
             w2 == IF w1.currentDrag = "Keyboard"
                   THEN [w1 EXCEPT !.m = popContext(w1.m, dropContext.name, FALSE)]
                   ELSE w1
         IN [w2 EXCEPT !.currentDrag = "None"]
    ELSE IF w.controller.kind = "UnifiedDrag"
    THEN stopDrag(pointerCancel(w), FALSE)
    ELSE IF w.controller.kind = "StandardDrag"
    THEN pointerCancel(w)
    ELSE w

\* StandardDrag.onDragStart, and the listeners of its dragStarted
onDragStart(w, type) ==
    IF w.controller.kind = "DropAreaDrag" THEN start(w, type)
    ELSE IF w.controller.kind = "StandardDrag"
    THEN Emit([w EXCEPT !.currentDrag = type], "controller", "dragStarted", type)
    ELSE Emit(w, "controller", "dragStarted", IF type = "None" THEN "Held" ELSE type)

\* StandardDrag.onDragEnd, and the listeners of its dragComplete
onDragEnd(w) ==
    IF w.controller.kind = "DropAreaDrag" THEN end(moveTarget(w))
    ELSE IF w.controller.kind = "StandardDrag"
    THEN Emit([moveTarget(w) EXCEPT !.currentDrag = "None"],
              "controller", "dragComplete", "None")
    ELSE Emit(moveTarget(w), "controller", "dragComplete", "None")

\* The listener of interactive.onActivate: of DropAreaDrag, and
\* KeyboardFreeDrag.onActivate(pointerPos)
onActivate(w, position) ==
    IF position # "null" THEN w
    ELSE IF w.controller.kind = "DropAreaDrag"
    THEN IF w.currentDrag # "None"
         THEN [w EXCEPT !.currentDrag = "None",
                        !.m = popContext(w.m, dropContext.name, FALSE)]
         ELSE Emit([w EXCEPT !.currentDrag = "Keyboard",
                             !.m = activateContext(w.m, dropContext, FALSE)],
                   "controller", "dragStarted", "Keyboard")
    ELSE IF w.keyboardContext THEN stopDrag(w, TRUE) ELSE startDrag(w)

\* A drop area listener that emits dragComplete and leaves the drag as it is
onDropActivate_noCancel(w, i) ==
    IF w.currentDrag # "None"
    THEN Emit(w, "controller", "dragComplete", ToString(i))
    ELSE w

\* The listener DropAreaDrag gives onActivate of the drop area items[i]
onDropActivate(w, i) ==
    IF w.currentDrag # "None"
    THEN Emit(cancel(w), "controller", "dragComplete", ToString(i))
    ELSE w

\* The listeners the controller gave an event of an element.  None of them
\* reads or writes the element that emits, so they find the same whether the
\* handler has finished or not.
Subscribers(w, item, event, arg) ==
    IF w.controller.kind = "None" THEN w
    ELSE IF item = Dragged
    THEN CASE event = "dragStart" -> onDragStart(w, arg)
           [] event = "dragMove" -> moveTarget(w)
           [] event = "dragStop" -> onDragEnd(w)
           [] event = "onActivate" -> onActivate(w, arg)
           [] OTHER -> w
    ELSE IF /\ w.controller.kind = "DropAreaDrag"
            /\ event = "onActivate"
            /\ Includes(dropContext.items, item)
    THEN onDropActivate(w, IndexOf(dropContext.items, item))
    ELSE w

\* The events a handler may emit, in the order it emits them
EventOrder == <<"dragStart", "dragMove", "dragStop", "onActivate">>

\* The events of a handler reach their listeners in the order it emits them
RECURSIVE Notify(_, _, _, _)
Notify(w, item, emits, k) ==
    IF k > Len(EventOrder) THEN w
    ELSE Notify(IF \E e \in emits : e[1] = EventOrder[k]
                THEN Subscribers(w, item, EventOrder[k],
                                 (CHOOSE e \in emits : e[1] = EventOrder[k])[2])
                ELSE w,
                item, emits, k + 1)

\* A handler of an element runs, and the listeners of what it emits
Take(w, item, h) ==
    IF Transfers(w, item, h)
    THEN transferDrag(Own(w, item, Interrupted(h)), item, Recipient)
    ELSE Notify(Own(w, item, h), item, h.emits, 1)

\* The handler an element gave the window for an event
Handle(w, item, ev) ==
    LET el == w.interactives[item]
    IN CASE ev.type = "pointermove" -> onPointerMove(el, ev.id, ev.far, w.m.enabled, w.used)
         [] ev.type = "pointerup" -> onPointerUp(el, ev.id, w.m.enabled, w.used)
         [] OTHER -> onPointerCancel(el, ev.id, w.m.enabled)

\* The window hands an event to its listeners in the order they were added;
\* one removed before its turn is not called
RECURSIVE WindowEvent(_, _, _, _)
WindowEvent(w, order, k, ev) ==
    IF k > Len(order) THEN w
    ELSE LET item == order[k]
         IN WindowEvent(IF w.interactives[item].listening
                        THEN Take(w, item, Handle(w, item, ev)) ELSE w,
                        order, k + 1, ev)

(* ----------------------------- GridContext ---------------------------- *)

\* No GridContext is built
NoGrid ==
    [cells |-> {}, gridWidth |-> 0, gridHeight |-> 0, tabSelection |-> "single",
     skipGaps |-> FALSE, loop |-> FALSE, gridX |-> 0, gridY |-> 0,
     activeContext |-> "all", name |-> "", columns |-> [n \in {} |-> <<>>]]

\* grid[x] && grid[x][y]
GridAt(g, x, y) == IF <<x, y>> \in g.cells THEN Cell(x, y) ELSE NoItem

\* allItems: the items row by row
RECURSIVE AllItemsFrom(_, _, _)
AllItemsFrom(g, x, y) ==
    IF y >= g.gridHeight THEN <<>>
    ELSE IF x >= g.gridWidth THEN AllItemsFrom(g, 0, y + 1)
    ELSE (IF GridAt(g, x, y) # NoItem THEN <<GridAt(g, x, y)>> ELSE <<>>)
         \o AllItemsFrom(g, x + 1, y)

allItems(g) == AllItemsFrom(g, 0, 0)

\* The column groups of tabSelection 'column', one for each column that has
\* an item
RECURSIVE ColumnGroupsFrom(_, _)
ColumnGroupsFrom(g, x) ==
    IF x >= g.gridWidth THEN <<>>
    ELSE (IF ColumnFrom(g.cells, g.gridHeight, x, 0) # <<>> THEN <<ColumnGroup(x)>> ELSE <<>>)
         \o ColumnGroupsFrom(g, x + 1)

\* The column a group was built for
ColumnOf(n) == CHOOSE x \in 0..(MaxGridWidth - 1) : ColumnGroup(x) = n

\* new GridContext(opts), for tabSelection 'column' and 'single'
NewGridContext(cells, tabSelection, skipGaps, loop) ==
    [cells |-> cells, gridWidth |-> MaxGridWidth, gridHeight |-> MaxGridHeight,
     tabSelection |-> tabSelection, skipGaps |-> skipGaps, loop |-> loop,
     gridX |-> 0, gridY |-> 0,
     activeContext |-> IF tabSelection = "single" THEN "all" ELSE "lines",
     name |-> "grid",
     columns |-> IF tabSelection = "single" THEN [n \in {} |-> <<>>]
                 ELSE [n \in {ColumnGroup(x) : x \in 0..(MaxGridWidth - 1)} |->
                          ColumnFrom(cells, MaxGridHeight, ColumnOf(n), 0)]]

\* this.grid[x][y] as the constructor's row loop reads it: grid[x] is
\* undefined beyond the width, and reading [y] of undefined throws; beyond
\* the height grid[x][y] is undefined
TypeError == "TypeError"
GridRead(g, x, y) ==
    IF x >= g.gridWidth THEN TypeError
    ELSE IF y >= g.gridHeight THEN NoItem
    ELSE GridAt(g, x, y)

\* The inner loop of case 'row': for (let x = 0; x < this.gridHeight; ++x)
RECURSIVE RowFrom(_, _, _, _)
RowFrom(g, y, x, row) ==
    IF x >= g.gridHeight THEN row
    ELSE IF GridRead(g, x, y) = TypeError THEN TypeError
    ELSE RowFrom(g, y, x + 1,
                 IF GridRead(g, x, y) # NoItem THEN Append(row, GridRead(g, x, y)) ELSE row)

\* The outer loop of case 'row': for (let y = 0; y < this.gridWidth; ++y);
\* a row group is told by its childContext, and is pushed whatever it holds
RECURSIVE RowGroupsFrom(_, _, _)
RowGroupsFrom(g, y, items) ==
    IF y >= g.gridWidth THEN items
    ELSE IF RowFrom(g, y, 0, <<>>) = TypeError THEN TypeError
    ELSE RowGroupsFrom(g, y + 1, Append(items, RowFrom(g, y, 0, <<>>)))

\* new GridContext(opts) for tabSelection 'row' over a grid of the width and
\* height given; thrown tells that the constructor threw
NewRowContext(cells, width, height) ==
    LET g == [NoGrid EXCEPT !.cells = cells, !.gridWidth = width, !.gridHeight = height,
                            !.tabSelection = "row", !.activeContext = "lines",
                            !.name = "grid"]
    IN [cells |-> cells, gridWidth |-> width, gridHeight |-> height,
        tabSelection |-> "row", skipGaps |-> FALSE, loop |-> FALSE, gridX |-> 0,
        gridY |-> 0, activeContext |-> "lines", name |-> "grid",
        columns |-> [n \in {} |-> <<>>],
        thrown |-> RowGroupsFrom(g, 0, <<>>) = TypeError,
        rows |-> IF RowGroupsFrom(g, 0, <<>>) = TypeError THEN <<>>
                 ELSE RowGroupsFrom(g, 0, <<>>)]

\* The context as the manager reads it: items, name, allowBaseline, and the
\* activate and deactivate hooks
GridItems(g) ==
    [name |-> g.name,
     items |-> IF g.tabSelection = "single" THEN allItems(g) ELSE ColumnGroupsFrom(g, 0),
     allowBaseline |-> "false", hooks |-> TRUE]

\* The onFocus listeners the constructor gives the items and the column
\* groups: they run when the document's focus comes to the element
onFocus(g, item) ==
    IF \E p \in g.cells : Cell(p[1], p[2]) = item
    THEN LET p == CHOOSE p \in g.cells : Cell(p[1], p[2]) = item
         IN [g EXCEPT !.gridX = p[1], !.gridY = p[2]]
    ELSE IF \E x \in 0..(g.gridWidth - 1) : ColumnGroup(x) = item
    THEN LET x == CHOOSE x \in 0..(g.gridWidth - 1) : ColumnGroup(x) = item
         IN [g EXCEPT !.gridX = x, !.gridY = 0, !.activeContext = "lines"]
    ELSE g

\* The grid's fields when a call has moved the document's focus from `from`
\* to the active element of m
Focused(g, from, m) ==
    IF m.activeElement # from /\ m.activeElement # NoItem
    THEN onFocus(g, m.activeElement) ELSE g

\* Where the loop of move(x, y) stops: the place it ends at, or NeverStops
\* when it comes to a place a second time.  seen holds the places it was at.
NoLanding == <<-1, -1>>
NeverStops == <<-2, -2>>

\* A loop that stops at the first gap it meets
Walk_stopsAtGap(g, nextX, nextY, x, y, seen) ==
    IF GridAt(g, nextX, nextY) # NoItem THEN <<nextX, nextY>> ELSE NoLanding

\* A loop that stops at the edges of the grid
RECURSIVE Walk_stopsAtEdge(_, _, _, _, _, _)
Walk_stopsAtEdge(g, nextX, nextY, x, y, seen) ==
    IF GridAt(g, nextX, nextY) # NoItem THEN <<nextX, nextY>>
    ELSE IF nextX < 0 \/ nextX >= g.gridWidth \/ nextY < 0 \/ nextY >= g.gridHeight
    THEN NoLanding
    ELSE IF g.skipGaps
    THEN Walk_stopsAtEdge(g, nextX + x, nextY + y, x, y, seen)
    ELSE NoLanding

RECURSIVE Walk(_, _, _, _, _, _)
Walk(g, nextX, nextY, x, y, seen) ==
    IF GridAt(g, nextX, nextY) # NoItem THEN <<nextX, nextY>>
    ELSE IF <<nextX, nextY>> \in seen THEN NeverStops
    ELSE IF nextX < 0 \/ nextX >= g.gridWidth \/ nextY < 0 \/ nextY >= g.gridHeight
    THEN IF ~g.loop THEN NoLanding
         ELSE LET wrapX == IF nextX < 0 THEN g.gridWidth - 1
                           ELSE IF nextX >= g.gridWidth THEN 0 ELSE nextX
                  wrapY == IF nextY < 0 THEN g.gridHeight - 1
                           ELSE IF nextY >= g.gridHeight THEN 0 ELSE nextY
              IN Walk(g, wrapX, wrapY, x, y, seen \cup {<<nextX, nextY>>})
    ELSE IF g.skipGaps
    THEN Walk(g, nextX + x, nextY + y, x, y, seen \cup {<<nextX, nextY>>})
    ELSE NoLanding

\* The place move(x, y) lands on
Landing(g, x, y) == Walk(g, g.gridX + x, g.gridY + y, x, y, {})

\* useArrowContext(), on the manager's fields
useArrowContext(g, m) ==
    IF g.activeContext = "all" THEN m
    ELSE replaceCurrentContext(
            IF g.activeContext = "singleLine" THEN popContext(m, "", FALSE) ELSE m,
            [name |-> "", items |-> allItems(g), allowBaseline |-> "false",
             hooks |-> FALSE])

\* move(x, y), on the manager's fields
move(g, m, x, y) ==
    LET to == Landing(g, x, y)
    IN IF to = NeverStops THEN [m EXCEPT !.pc = "hung"]
       ELSE IF to = NoLanding THEN m
       ELSE Focus(useArrowContext(g, m), GridAt(g, to[1], to[2]))

(* ------------------------------- inputs ------------------------------- *)

\* The FullFocusContext / ComplexFocusContext objects the application passes
\* to activateContext; hooks tells a complex context (activate, deactivate).
FullContexts ==
    { [name |-> "m", items |-> <<"a", "b">>, allowBaseline |-> "undefined", hooks |-> FALSE],
      [name |-> "m", items |-> <<"g", "p">>, allowBaseline |-> "true", hooks |-> FALSE],
      [name |-> "n", items |-> <<"p">>, allowBaseline |-> "false", hooks |-> TRUE] }

\* The arrays the application passes to activateContext
ArrayContexts == { <<"c">> }

\* math.randInt(0, 100000).toString(): the names an array may be given
RandIntNames == { "7" }

\* The contexts the application passes to replaceCurrentContext
ReplaceContexts ==
    FullContexts \cup
    { [name |-> "", items |-> <<"a", "c">>, allowBaseline |-> "false", hooks |-> FALSE] }

\* The names the application passes to popContext
PopNames == {"", "m", "n", "7", "0.0"}

\* The lists the application passes to setBaseline
Baselines == { [prepend |-> <<>>, append |-> <<>>], [prepend |-> <<"a">>, append |-> <<"b">>] }

\* The elements whose visible flag the application changes
Toggled == {"a", "b"}

\* What the browser and the event emitter decide in a call.  A call that
\* never re-inserts a focused element, or never focuses an exit element, does
\* not read the choice.
NoEnv == [keepsFocus |-> FALSE, lateListener |-> FALSE]
KeepEnvs == [keepsFocus : BOOLEAN, lateListener : {FALSE}]
LateEnvs == [keepsFocus : {FALSE}, lateListener : BOOLEAN]

(* ------------------------------- actions ------------------------------ *)

\* The manager's fields at the start of a call
M(env) ==
    [contexts |-> contexts, baselineContext |-> baselineContext,
     currentContext |-> currentContext, current |-> current,
     activeElement |-> activeElement, enabled |-> enabled, hidden |-> hidden,
     opts |-> opts, removed |-> {}, pc |-> pc, env |-> env,
     controlsListener |-> controlsListener, useDwell |-> useDwell,
     alwaysDwell |-> alwaysDwell, dwellTimeout |-> dwellTimeout,
     timeouts |-> timeouts, returned |-> "",
     isBeingHeld |-> {item \in DOMAIN interactives :
                         interactives[item].activePointerId >= 0}]

\* What the last call was, for the calls told apart below: index is the
\* 0-based stack index of the name the call looked up, -1 when no context has it
Call(op, index) ==
    CASE op = "activateContext" /\ index >= 0 ->
            IF index + 1 < Len(contexts) THEN "reactivateBelow" ELSE "reactivateTop"
      [] op = "popContext" /\ index >= 0 -> "popNamed"
      [] op = "popContext" /\ index = -1 -> "popMissing"
      [] op = "popContextKeep" /\ index >= 0 -> "popKeep"
      [] op = "popContextKeep" /\ index = -1 -> "popMissing"
      [] op = "replaceCurrentContext" /\ index = -1 -> "replaceMissing"
      [] op \in {"next", "prev", "moveLeft", "moveRight", "moveUp", "moveDown"} -> op
      [] OTHER -> "other"

\* The manager's fields when the call returns
CommitFields(call, r) ==
    /\ lastCall' = call
    /\ contexts' = r.contexts
    /\ baselineContext' = r.baselineContext
    /\ currentContext' = r.currentContext
    /\ current' = r.current
    /\ activeElement' = r.activeElement
    /\ enabled' = r.enabled
    /\ hidden' = r.hidden
    /\ opts' = r.opts
    /\ removed' = r.removed
    /\ pc' = r.pc
    /\ controlsListener' = r.controlsListener
    /\ useDwell' = r.useDwell
    /\ alwaysDwell' = r.alwaysDwell
    /\ dwellTimeout' = r.dwellTimeout
    /\ timeouts' = r.timeouts
    /\ returned' = r.returned
    /\ UNCHANGED keyboardVars

\* A call that no element emits a pointer event in and that leaves the
\* pointer fields alone; g holds the fields of the GridContext as the call
\* left them, which its onFocus listeners then change
CommitGrid(call, r, g) ==
    /\ CommitFields(call, r)
    /\ emitted' = {}
    /\ tested' = NoTest
    /\ gridContext' = Focused(g, activeElement, r)
    /\ UNCHANGED <<interactives, used, idsForRemoval, pressed, listeners>>
    /\ UNCHANGED <<controller, currentDrag, keyboardContext, held, cancelled>>

Commit(call, r) == CommitGrid(call, r, gridContext)

\* The stack grows by at most one context in a call
Room(name) == Len(contexts) < MaxDepth \/ \E k \in DOMAIN contexts : contexts[k].name = name

ActivateContext(ctx, asChild) ==
    /\ pc = "idle"
    /\ Room(ctx.name)
    /\ Commit(Call("activateContext", FindIndex(contexts, ctx.name)),
              activateContext(M(NoEnv), ctx, asChild))

\* activateContext(array, asChild)
ActivateArray(items, name, asChild) ==
    /\ pc = "idle"
    /\ Room(name)
    /\ Commit(Call("activateContext", FindIndex(contexts, name)),
                 activateContext(M(NoEnv),
                    [name |-> name, items |-> items, allowBaseline |-> "true",
                     hooks |-> FALSE], asChild))

EnterGroup(item) ==
    /\ pc = "idle"
    /\ Len(contexts) < MaxDepth
    /\ Commit(Call("enterGroup", -2), enterGroup(M(NoEnv), item, NoOverride))

PopContext(name, keepNamed) ==
    /\ pc = "idle"
    /\ Commit(Call(IF keepNamed THEN "popContextKeep" ELSE "popContext",
                   IF name = "" THEN -2 ELSE FindIndex(contexts, name)),
              popContext(M(NoEnv), name, keepNamed))

ClearContexts ==
    /\ pc = "idle"
    /\ Commit(Call("clearContexts", -2), clearContexts(M(NoEnv)))

SetBaseline(prepend, append) ==
    /\ pc = "idle"
    /\ \E env \in KeepEnvs : Commit(Call("setBaseline", -2), setBaseline(M(env), prepend, append))

ReplaceCurrentContext(ctx) ==
    /\ pc = "idle"
    /\ Room(ctx.name) \/ (ctx.name = "" /\ Len(contexts) > 0)
    /\ \E env \in KeepEnvs : 
          Commit(Call("replaceCurrentContext",
                      IF ctx.name = "" THEN Len(contexts) - 1 ELSE FindIndex(contexts, ctx.name)),
                 replaceCurrentContext(M(env), ctx))

\* The tab key
NextKey ==
    /\ pc = "idle"
    /\ \E env \in LateEnvs : Commit(Call("next", -2), tab(M(env), 1))

\* shift + tab
PrevKey ==
    /\ pc = "idle"
    /\ \E env \in LateEnvs : Commit(Call("prev", -2), tab(M(env), -1))

\* item.focus(), by the application or by the pointer entering the element
FocusItem(item) ==
    /\ pc = "idle"
    /\ \E env \in LateEnvs : Commit(Call("focus", -2), Focus(M(env), item))

\* item.blur()
BlurItem(item) ==
    /\ pc = "idle"
    /\ Commit(Call("blur", -2), Blur(M(NoEnv), item))

\* item.visible = v.  An element that stops being displayed loses the
\* document's focus; whether its blur event is fired is the browser's choice.
SetVisible(item, v) ==
    /\ pc = "idle"
    /\ \E fires \in BOOLEAN :
          LET m  == M(NoEnv)
              m1 == [m EXCEPT !.hidden = IF v THEN @ \ {item} ELSE @ \cup {item}]
          IN CommitFields(Call("visible", -2),
                    IF ~v /\ m.activeElement = item
                    THEN (IF fires THEN Blur(m1, item)
                          ELSE [m1 EXCEPT !.activeElement = NoItem])
                    ELSE m1)
    /\ idsForRemoval' = idsForRemoval \cup
          (IF ~v /\ item \in PointerItems /\ interactives[item].activePointerId > -1
           THEN {interactives[item].activePointerId} ELSE {})
    /\ emitted' = {}
    /\ tested' = NoTest
    /\ UNCHANGED <<interactives, used, pressed, listeners, gridContext>>
    /\ UNCHANGED <<controller, currentDrag, keyboardContext, held, cancelled>>

\* manager.enabled = v
SetEnabled(v) ==
    /\ pc = "idle"
    /\ Commit(Call("enabled", -2), [M(NoEnv) EXCEPT !.enabled = v])

\* The constructor with the options given: no context, an empty baseline,
\* reset().
Construct(o) ==
    /\ contexts = <<>>
    /\ baselineContext = [prepend |-> <<>>, append |-> <<>>]
    /\ currentContext = [items |-> <<>>, extendedFamily |-> <<>>]
    /\ current = NoItem
    /\ activeElement = NoItem
    /\ enabled = FALSE
    /\ hidden = {}
    /\ opts = o
    /\ removed = {}
    /\ lastCall = Call("constructor", -2)
    /\ pc = "idle"
    /\ controlsListener = (o.control # "default")
    /\ useDwell = FALSE
    /\ alwaysDwell = {}
    /\ dwellTimeout = 0
    /\ timeouts = {}
    /\ returned = ""
    /\ contextStack = <<>>
    /\ jsContext = baseContext
    /\ jsListeners = {<<baseContext, "esc">>, <<baseContext, "enter">>}
                         \cup (IF o.control # "default"
                               THEN {<<baseContext, "tab">>} ELSE {})
    /\ quick = {}
    /\ keyCall = [op |-> "constructor", name |-> ""]

\* The elements as their constructors leave them, d giving the draggable
\* option of each; no id is claimed and no pointer is down
Interactives(d) ==
    /\ interactives = [item \in PointerItems |-> NewInteractive(d[item])]
    /\ used = {}
    /\ idsForRemoval = {}
    /\ pressed = {}
    /\ emitted = {}
    /\ listeners = <<>>

\* The controller built on Dragged, no drag having started
Controller(c) ==
    /\ controller = c
    /\ currentDrag = "None"
    /\ keyboardContext = FALSE
    /\ held = FALSE
    /\ tested = NoTest
    /\ cancelled = FALSE
    /\ gridContext = NoGrid

\* draggable: undefined
NotDraggable == [item \in PointerItems |-> "None"]

\* The elements of the document: focus() and blur() act on no other element
Document == Range(currentContext.items) \cup Range(currentContext.extendedFamily)

\* The operations on the stack
StackNext ==
    \/ \E ctx \in FullContexts, asChild \in BOOLEAN : ActivateContext(ctx, asChild)
    \/ \E items \in ArrayContexts, name \in RandIntNames, asChild \in BOOLEAN :
          ActivateArray(items, name, asChild)
    \/ \E item \in Items : EnterGroup(item)
    \/ \E name \in PopNames, keepNamed \in BOOLEAN : PopContext(name, keepNamed)
    \/ ClearContexts
    \/ \E b \in Baselines : SetBaseline(b.prepend, b.append)
    \/ \E ctx \in ReplaceContexts : ReplaceCurrentContext(ctx)

\* The operations on the focus
FocusNext ==
    \/ NextKey
    \/ PrevKey
    \/ \E item \in Document : FocusItem(item)
    \/ \E item \in Document : BlurItem(item)

\* opts.groupEnd || GroupEndStrategy.Exit, !!opts.focusWhenDisabled
DefaultOpts == [groupEnd |-> "exit", focusWhenDisabled |-> FALSE, control |-> "default"]

\* A manager built with the default options, which the application enables;
\* its elements stay visible.
Init == Construct(DefaultOpts) /\ Interactives(NotDraggable) /\ Controller(NoController)

Next ==
    \/ StackNext
    \/ FocusNext
    \/ SetEnabled(TRUE)

Spec == Init /\ [][Next]_vars

(* ------------------------ the pointer's events ------------------------ *)

\* The fields the listeners of one event act on in turn; hit is what the
\* drop test would answer at the pointer's place
World(env, hit) ==
    [m |-> M(env), interactives |-> interactives, used |-> used,
     idsForRemoval |-> idsForRemoval, listeners |-> listeners, emitted |-> {},
     controller |-> controller, currentDrag |-> currentDrag,
     keyboardContext |-> keyboardContext, tested |-> NoTest, hit |-> hit]

\* What the drop test answers where no drop area is
NoHit == [areas |-> {}, result |-> -1]

\* A drag of the controller has started in the event
Started(w) == \E e \in w.emitted : e[1] = "controller" /\ e[2] = "dragStarted"

\* The fields when the event's listeners have run; c tells whether cancel()
\* was called and no drag has started since
FinishAs(call, w, down, c) ==
    /\ CommitFields(call, w.m)
    /\ interactives' = w.interactives
    /\ used' = w.used
    /\ idsForRemoval' = w.idsForRemoval
    /\ listeners' = w.listeners
    /\ emitted' = w.emitted
    /\ pressed' = down
    /\ currentDrag' = w.currentDrag
    /\ keyboardContext' = w.keyboardContext
    /\ tested' = w.tested
    /\ cancelled' = c
    /\ UNCHANGED <<controller, held, gridContext>>

Finish(w, down, c) == FinishAs(lastCall, w, down, c)

Dispatch(w, down) == Finish(w, down, cancelled /\ ~Started(w))

\* The element takes pointer events: it is displayed in the document and is
\* neither a group nor keyboardOnly (pointer-events: none)
TakesPointer(item) ==
    /\ item \in Document
    /\ item \notin hidden
    /\ ~isGroup(item) /\ ~keyboardOnly(item)

\* Where the pointer may let the target go: what hitTest and testDropAreas
\* answer there
Hits == [areas : SUBSET {0, 1}, result : {-1, 0, 1}]

\* The answers the controller of the step reads
HitsRead ==
    IF controller.kind # "DropAreaDrag" THEN {NoHit}
    ELSE IF controller.testDropAreas THEN { h \in Hits : h.areas = {} }
    ELSE { h \in Hits : h.result = -1 }

\* A pointer goes down on an element, or (NoItem) on none
PointerDown(id, target) ==
    /\ pc = "idle"
    /\ id \notin pressed
    /\ Cardinality(pressed) < MaxPointers
    /\ target = NoItem \/ TakesPointer(target)
    /\ LET w == World(NoEnv, NoHit)
       IN Dispatch(IF target = NoItem THEN w
                   ELSE Take(w, target, onPointerDown(interactives[target], id, enabled)),
                   pressed \cup {id})

\* A pointer moves: the window hands the event to every element that listens
PointerMove(id, far) ==
    /\ pc = "idle"
    /\ id \in pressed \/ ~isTouch(id)
    /\ Dispatch(WindowEvent(World(NoEnv, NoHit), listeners, 1,
                            [type |-> "pointermove", id |-> id, far |-> far]),
                pressed)

\* A pointer goes up
PointerUp(id) ==
    /\ pc = "idle"
    /\ id \in pressed
    /\ \E hit \in HitsRead :
          Dispatch(WindowEvent(World(NoEnv, hit), listeners, 1,
                               [type |-> "pointerup", id |-> id, far |-> FALSE]),
                   pressed \ {id})

\* The browser cancels a pointer
PointerCancel(id) ==
    /\ pc = "idle"
    /\ id \in pressed
    /\ \E hit \in HitsRead :
          Dispatch(WindowEvent(World(NoEnv, hit), listeners, 1,
                               [type |-> "pointercancel", id |-> id, far |-> FALSE]),
                   pressed \ {id})

\* idTracker.deleteIdsLater, the timeout freeId sets
DeleteIdsLater ==
    /\ pc = "idle"
    /\ idsForRemoval # {}
    /\ used' = used \ idsForRemoval
    /\ idsForRemoval' = {}
    /\ emitted' = {}
    /\ tested' = NoTest
    /\ UNCHANGED <<managerVars, keyboardVars, interactives, pressed, listeners, gridContext>>
    /\ UNCHANGED <<controller, currentDrag, keyboardContext, held, cancelled>>

\* onPointerOver(ev) (inside) and onPointerOut(ev) of an element, which the
\* mouse and a touch that is down send
PointerOverOut(item, id, inside) ==
    /\ pc = "idle"
    /\ TakesPointer(item)
    /\ id \in pressed \/ ~isTouch(id)
    /\ CommitFields(Call(IF inside THEN "focus" ELSE "blur", -2),
                    IF ~focusEnabled(M(NoEnv)) THEN M(NoEnv)
                    ELSE IF inside THEN Focus(M(NoEnv), item)
                    ELSE Blur(M(NoEnv), item))
    /\ interactives' =
          IF focusEnabled(M(NoEnv)) /\ interactives[item].activePointerId = id
          THEN [interactives EXCEPT ![item].pointerIn = inside]
          ELSE interactives
    /\ emitted' = {}
    /\ tested' = NoTest
    /\ UNCHANGED <<used, idsForRemoval, pressed, listeners, gridContext>>
    /\ UNCHANGED <<controller, currentDrag, keyboardContext, held, cancelled>>

\* item.cancelDrag(keepIdClaimed)
CancelDrag(item, keepIdClaimed) ==
    /\ pc = "idle"
    /\ Dispatch(Own(World(NoEnv, NoHit), item,
                    cancelDrag(interactives[item], keepIdClaimed)),
                pressed)

\* item.transferDrag(recipient), called by the application between two events
TransferDrag(item, recipient) ==
    /\ pc = "idle"
    /\ item # recipient
    /\ Dispatch(transferDrag(World(NoEnv, NoHit), item, recipient), pressed)

\* The end of activate() and of activateKeyUp(): lockBackIn() after the listeners
LockedBackIn(w) == [w EXCEPT !.m = lockBackIn(w.m)]

\* The end of a key activation: the listeners that started no drag leave a
\* cancelled controller as it is
FinishKey(w) == FinishAs("key", w, pressed, cancelled /\ ~Started(w))

\* activateKeyUp(): keyStop is emitted on the focused element, whose listener
\* (keyControl Normal) emits onActivate(null) while the manager is enabled
activateKeyUp(w) ==
    LET item == w.m.current
    IN IF ~w.m.enabled \/ item = NoItem THEN w
       ELSE LockedBackIn(Subscribers(Emit(w, item, "onActivate", "null"),
                                     item, "onActivate", "null"))

\* activate(), which the dwell timer calls
activate(w) ==
    LET item == w.m.current
    IN IF ~w.m.enabled \/ item = NoItem \/ item \in w.m.isBeingHeld THEN w
       ELSE LockedBackIn(Subscribers(Emit(w, item, "onActivate", "null"),
                                     item, "onActivate", "null"))

\* The enter and space keys, pressed and released on the focused element:
\* activateKeyDown, then activateKeyUp
Activate ==
    /\ pc = "idle"
    /\ enabled
    /\ current # NoItem
    /\ FinishKey(activateKeyUp(World(NoEnv, NoHit)))

\* The ESC key
Esc ==
    /\ pc = "idle"
    /\ Commit("esc", handleEsc(M(NoEnv)))

\* manager.useDwell = v
SetUseDwell(v) ==
    /\ pc = "idle"
    /\ Commit(Call("useDwell", -2), [M(NoEnv) EXCEPT !.useDwell = v])

\* item.alwaysDwell = v
SetAlwaysDwell(item, v) ==
    /\ pc = "idle"
    /\ Commit(Call("alwaysDwell", -2),
              [M(NoEnv) EXCEPT !.alwaysDwell = IF v THEN @ \cup {item} ELSE @ \ {item}])

\* A dwell timer that is set fires: the browser calls activate
Timeout(id) ==
    /\ pc = "idle"
    /\ \E t \in timeouts : t[1] = id
    /\ LET w == World(NoEnv, NoHit)
       IN FinishAs("dwell", activate([w EXCEPT !.m = clearTimeout(w.m, id)]), pressed,
                   cancelled)

\* update(deltaSec) of KeyboardFreeDrag, the listener startDrag gives the
\* globalTimer and stopDrag takes back; ready tells that the tick is due
Update(ready) ==
    /\ pc = "idle"
    /\ controller.kind = "UnifiedDrag"
    /\ keyboardContext
    /\ LET w == World(NoEnv, NoHit)
       IN Dispatch(IF ready /\ held THEN moveTarget(w) ELSE w, pressed)

\* cancel() of the controller
Cancel ==
    /\ pc = "idle"
    /\ controller.kind # "None"
    /\ Finish(cancel(World(NoEnv, NoHit)), pressed, TRUE)

\* The draggable options of the elements
Draggables ==
    { [a |-> "DragWithStickyClickTap", b |-> s] :
        s \in {"None", "DragOnly", "DragOrClick", "DragWithStickyClick",
               "DragWithStickyClickTap"} }

\* The context that puts the elements in the document
PointerContexts == { ctx \in FullContexts : ctx.items = <<"a", "b">> }

PointerInit ==
    \E d \in Draggables :
        Construct(DefaultOpts) /\ Interactives(d) /\ Controller(NoController)

PointerNext ==
    \/ \E ctx \in PointerContexts : Len(contexts) = 0 /\ ActivateContext(ctx, FALSE)
    \/ \E v \in BOOLEAN : SetEnabled(v)
    \/ \E id \in PointerIds, target \in PointerItems \cup {NoItem} : PointerDown(id, target)
    \/ \E id \in PointerIds, far \in BOOLEAN : PointerMove(id, far)
    \/ \E id \in PointerIds : PointerUp(id)
    \/ \E id \in PointerIds : PointerCancel(id)
    \/ DeleteIdsLater
    \/ \E item \in PointerItems, keepIdClaimed \in BOOLEAN : CancelDrag(item, keepIdClaimed)

\* The elements under the pointers
PointerSpec == PointerInit /\ [][PointerNext]_vars

\* The places of a grid, and the grids the application builds
Places == (0..(MaxGridWidth - 1)) \X (0..(MaxGridHeight - 1))
Directions == {<<-1, 0>>, <<1, 0>>, <<0, -1>>, <<0, 1>>}

\* The key config of the constructor that calls move(x, y)
MoveKey(x, y) ==
    IF x < 0 THEN "moveLeft" ELSE IF x > 0 THEN "moveRight"
    ELSE IF y < 0 THEN "moveUp" ELSE "moveDown"

\* A column group is activated: the listener of the GridContext, then
\* enterGroup of the manager
ActivateColumn(x) ==
    /\ pc = "idle"
    /\ Len(contexts) < MaxDepth
    /\ Includes(currentContext.items, ColumnGroup(x))
    /\ CommitGrid(Call("enterGroup", -2), enterGroup(M(NoEnv), ColumnGroup(x), NoOverride),
                  [gridContext EXCEPT !.activeContext = "singleLine"])

\* move(x, y), the listener of the direction keys while the context is active
Move(x, y) ==
    /\ pc = "idle"
    /\ hasContext(M(NoEnv), gridContext.name)
    /\ \E env \in LateEnvs :
          CommitGrid(Call(MoveKey(x, y), -2), move(gridContext, M(env), x, y),
                     IF Landing(gridContext, x, y) \in {NoLanding, NeverStops}
                     THEN gridContext
                     ELSE [gridContext EXCEPT !.activeContext = "all"])

GridInit ==
    /\ Construct(DefaultOpts)
    /\ Interactives(NotDraggable)
    /\ controller = NoController
    /\ currentDrag = "None"
    /\ keyboardContext = FALSE
    /\ held = FALSE
    /\ tested = NoTest
    /\ cancelled = FALSE
    /\ \E cells \in SUBSET Places, tabSelection \in {"column", "single"},
          skipGaps \in BOOLEAN, loop \in BOOLEAN :
          gridContext = NewGridContext(cells, tabSelection, skipGaps, loop)

GridNext ==
    \/ SetEnabled(TRUE)
    \/ Len(contexts) = 0 /\ ActivateContext(GridItems(gridContext), FALSE)
    \/ NextKey
    \/ \E x \in 0..(MaxGridWidth - 1) : ActivateColumn(x)
    \/ \E d \in Directions : Move(d[1], d[2])

\* A GridContext on the stack, under the tab key and the direction keys
GridSpec == GridInit /\ [][GridNext]_vars

\* A GridContext with column groups, built once
GridStackInit ==
    /\ Construct(DefaultOpts)
    /\ Interactives(NotDraggable)
    /\ controller = NoController
    /\ currentDrag = "None"
    /\ keyboardContext = FALSE
    /\ held = FALSE
    /\ tested = NoTest
    /\ cancelled = FALSE
    /\ \E cells \in SUBSET Places, skipGaps \in BOOLEAN :
          gridContext = NewGridContext(cells, "column", skipGaps, FALSE)

GridStackNext ==
    \/ SetEnabled(TRUE)
    \/ ActivateContext(GridItems(gridContext), FALSE)
    \/ PopContext("", FALSE)
    \/ Esc
    \/ NextKey
    \/ \E x \in 0..(MaxGridWidth - 1) : ActivateColumn(x)
    \/ \E d \in Directions : Move(d[1], d[2])

\* A GridContext that is activated, left and activated again, under the tab
\* key, the ESC key and the direction keys
GridStackSpec == GridStackInit /\ [][GridStackNext]_vars

\* The controllers the application builds on Dragged
Controllers ==
    { [kind |-> "DropAreaDrag", testDropAreas |-> FALSE],
      [kind |-> "DropAreaDrag", testDropAreas |-> TRUE],
      [kind |-> "UnifiedDrag", testDropAreas |-> FALSE] }

\* The pointers of the drags
DragPointerIds == {MouseId, 2}

DragInit ==
    /\ Construct(DefaultOpts)
    /\ Interactives([a |-> "DragWithStickyClickTap", b |-> "None"])
    /\ \E c \in Controllers : Controller(c)

DragNext ==
    \/ \E ctx \in PointerContexts : Len(contexts) = 0 /\ ActivateContext(ctx, FALSE)
    \/ \E v \in BOOLEAN : SetEnabled(v)
    \/ \E v \in BOOLEAN : SetVisible("b", v)
    \/ NextKey
    \/ Activate
    \/ \E ready \in BOOLEAN : Update(ready)
    \/ Cancel
    \/ \E id \in DragPointerIds, target \in PointerItems \cup {NoItem} :
          Cardinality(pressed) < MaxDragPointers /\ PointerDown(id, target)
    \/ \E id \in DragPointerIds, far \in BOOLEAN : PointerMove(id, far)
    \/ \E id \in DragPointerIds : PointerUp(id)
    \/ \E id \in DragPointerIds : PointerCancel(id)
    \/ DeleteIdsLater

\* An element under the pointers and the keys, with a drag controller on it
DragSpec == DragInit /\ [][DragNext]_vars

\* A DropAreaDrag whose keyboard drag is left with the ESC key; the listener
\* dropContext.activate binds to ESC calls popContext(dropContext.name)
EscDragInit ==
    /\ Construct(DefaultOpts)
    /\ Interactives([a |-> "DragOnly", b |-> "None"])
    /\ \E t \in BOOLEAN : Controller([kind |-> "DropAreaDrag", testDropAreas |-> t])

EscDragNext ==
    \/ \E ctx \in PointerContexts : Len(contexts) = 0 /\ ActivateContext(ctx, FALSE)
    \/ SetEnabled(TRUE)
    \/ NextKey
    \/ Activate
    \/ Esc
    \/ PopContext(dropContext.name, FALSE)
    \/ Cancel
    \/ \E target \in PointerItems : pressed = {} /\ PointerDown(MouseId, target)
    \/ PointerUp(MouseId)
    \/ DeleteIdsLater

EscDragSpec == EscDragInit /\ [][EscDragNext]_vars

\* The groups that are their own descendants: outer holds inner, and inner
\* holds outer
CyclicGroups == {"outer", "inner"}

\* Contexts with and without a cyclic group
CycleContexts ==
    { [name |-> "m", items |-> <<"a", "b">>, allowBaseline |-> "false", hooks |-> FALSE],
      [name |-> "n", items |-> <<"g", "p">>, allowBaseline |-> "true", hooks |-> FALSE],
      [name |-> "k", items |-> <<"a", "outer">>, allowBaseline |-> "true", hooks |-> FALSE] }

\* The baselines: none, one without and one with a cyclic group
CycleBaselines == {<<>>, <<"c">>, <<"inner">>}

CycleInit == Init

CycleNext ==
    \/ \E ctx \in CycleContexts, asChild \in BOOLEAN : ActivateContext(ctx, asChild)
    \/ \E item \in {"g", "outer"} : EnterGroup(item)
    \/ PopContext("", FALSE)
    \/ \E prepend \in CycleBaselines : SetBaseline(prepend, <<>>)
    \/ SetEnabled(TRUE)
    \/ NextKey

\* The stack operations over groups that hold each other
CycleSpec == CycleInit /\ [][CycleNext]_vars

\* new GridContext({grid, tabSelection: 'row'}) for a grid of any width and
\* height up to the bound, built once
BuildRows(cells, width, height) ==
    /\ pc = "idle"
    /\ gridContext = NoGrid
    /\ gridContext' = NewRowContext(cells, width, height)
    /\ UNCHANGED <<managerVars, keyboardVars, pointerVars, dragVars>>

RowInit == Init

RowNext ==
    /\ gridContext = NoGrid
    /\ \E width \in 1..MaxGridWidth, height \in 1..MaxGridWidth :
          \E cells \in SUBSET ((0..(width - 1)) \X (0..(height - 1))) :
             BuildRows(cells, width, height)

\* The constructor of GridContext over the grids of the application
RowSpec == RowInit /\ [][RowNext]_vars

\* A StandardDrag alone on Dragged; currentDrag holds its currentDragType
StandardOnly == [kind |-> "StandardDrag", testDropAreas |-> FALSE]

\* The draggable options of Dragged and of the element beside it
StandardDraggables ==
    { [a |-> s, b |-> t] : s \in {"DragOnly", "DragWithStickyClickTap"},
                           t \in {"None", "DragOnly", "DragOrClick"} }

StandardInit ==
    /\ Construct(DefaultOpts)
    /\ \E d \in StandardDraggables : Interactives(d)
    /\ Controller(StandardOnly)

StandardNext ==
    \/ \E ctx \in PointerContexts : Len(contexts) = 0 /\ ActivateContext(ctx, FALSE)
    \/ \E v \in BOOLEAN : SetEnabled(v)
    \/ Cancel
    \/ \E id \in DragPointerIds, target \in PointerItems :
          Cardinality(pressed) < MaxDragPointers /\ PointerDown(id, target)
    \/ \E id \in DragPointerIds, far \in BOOLEAN : PointerMove(id, far)
    \/ \E id \in DragPointerIds : PointerUp(id)
    \/ \E id \in DragPointerIds : PointerCancel(id)
    \/ DeleteIdsLater
    \/ \E item \in PointerItems, recipient \in PointerItems : TransferDrag(item, recipient)

\* A StandardDrag on an element that gives and takes drags by transferDrag
StandardSpec == StandardInit /\ [][StandardNext]_vars

\* The application's dragStart listener on Dragged that calls transferDrag
TransferOnStart == [kind |-> "Transfer", testDropAreas |-> FALSE]

\* The draggable options of the element that gives its drag and of the one
\* that takes it
TransferDraggables ==
    { [a |-> s, b |-> t] : s \in {"DragOnly", "DragOrClick", "DragWithStickyClickTap"},
                           t \in {"None", "DragOrClick"} }

TransferInit ==
    /\ Construct(DefaultOpts)
    /\ \E d \in TransferDraggables : Interactives(d)
    /\ \E c \in {NoController, TransferOnStart} : Controller(c)

TransferNext ==
    \/ \E ctx \in PointerContexts : Len(contexts) = 0 /\ ActivateContext(ctx, FALSE)
    \/ \E v \in BOOLEAN : SetEnabled(v)
    \/ \E id \in DragPointerIds, target \in PointerItems \cup {NoItem} :
          PointerDown(id, target)
    \/ \E id \in DragPointerIds, far \in BOOLEAN : PointerMove(id, far)
    \/ \E id \in DragPointerIds : PointerUp(id)
    \/ \E id \in DragPointerIds : PointerCancel(id)
    \/ DeleteIdsLater
    \/ TransferDrag(Dragged, Recipient)

\* Two elements under the pointers, one handing its drags to the other
TransferSpec == TransferInit /\ [][TransferNext]_vars

\* The contexts the application passes to enterGroup as overrideContext: an
\* array, and a complex context with either exit rule
Overrides ==
    { [NoOverride EXCEPT !.kind = "array", !.items = <<"c", "b">>] } \cup
    { [kind |-> "complex", name |-> "k", items |-> <<"c", "b">>,
       allowBaseline |-> "false", hooks |-> TRUE, exitRule |-> e] : e \in {"exit", "loop"} }

\* enterGroup(item, overrideContext); a complex context is passed while no
\* context of the stack has its name
EnterGroupOver(item, overrideContext) ==
    /\ pc = "idle"
    /\ Len(contexts) < MaxDepth
    /\ ~hasContext(M(NoEnv), overrideContext.name)
    /\ Commit(Call("enterGroup", -2), enterGroup(M(NoEnv), item, overrideContext))

\* popContext(name) with the name the enterGroup call before returned
PopReturned ==
    /\ pc = "idle"
    /\ returned # ""
    /\ Commit("popReturned", popContext(M(NoEnv), returned, FALSE))

\* A manager built with either group-end strategy, under enterGroup with and
\* without an overrideContext, the tab keys and popContext
GroupInit ==
    \E g \in {"exit", "loop"} :
        /\ Construct([groupEnd |-> g, focusWhenDisabled |-> FALSE, control |-> "default"])
        /\ Interactives(NotDraggable)
        /\ Controller(NoController)

GroupNext ==
    \/ \E ctx \in FullContexts : ActivateContext(ctx, FALSE)
    \/ \E item \in Items : EnterGroup(item)
    \/ \E item \in {"g", "p"}, o \in Overrides : EnterGroupOver(item, o)
    \/ PopReturned
    \/ PopContext("", FALSE)
    \/ NextKey
    \/ PrevKey
    \/ \E item \in Document : FocusItem(item)
    \/ \E v \in BOOLEAN : SetEnabled(v)

GroupSpec == GroupInit /\ [][GroupNext]_vars

\* The control strategies: BrowserNative, LockedIn, LockedInNoEsc
ControlStrategy == {"default", "lockEsc", "lock"}

\* A manager built with any control strategy, under the stack operations, the
\* tab key, the ESC key and the enter key
EscInit ==
    \E c \in ControlStrategy :
        /\ Construct([groupEnd |-> "exit", focusWhenDisabled |-> FALSE, control |-> c])
        /\ Interactives(NotDraggable)
        /\ Controller(NoController)

EscNext ==
    \/ \E ctx \in FullContexts, asChild \in BOOLEAN : ActivateContext(ctx, asChild)
    \/ \E item \in Items : EnterGroup(item)
    \/ PopContext("", FALSE)
    \/ \E b \in Baselines : SetBaseline(b.prepend, b.append)
    \/ NextKey
    \/ \E item \in Document : FocusItem(item)
    \/ Esc
    \/ Activate
    \/ \E v \in BOOLEAN : SetEnabled(v)

EscSpec == EscInit /\ [][EscNext]_vars

\* The Keyboard's fields at the start of a call
K == [contextStack |-> contextStack, jsContext |-> jsContext,
      jsListeners |-> jsListeners, quick |-> quick]

\* A call on the Keyboard: the manager and the elements stay as they are
KeyCommit(op, name, k) ==
    /\ keyCall' = [op |-> op, name |-> name]
    /\ contextStack' = k.contextStack
    /\ jsContext' = k.jsContext
    /\ jsListeners' = k.jsListeners
    /\ quick' = k.quick
    /\ emitted' = {}
    /\ UNCHANGED <<managerVars, dragVars, gridContext>>
    /\ UNCHANGED <<interactives, used, idsForRemoval, pressed, listeners>>

\* addQuickContext({keys: key, ...})
AddQuickContext(key) ==
    /\ Cardinality(quick) < MaxQuick
    /\ KeyCommit("addQuickContext", QuickName(K), addQuickContext(K, key))

\* dispose() of a Disposable addQuickContext returned
DisposeQuick(q) ==
    /\ q \in quick
    /\ KeyCommit("dispose", q.name, disposeQuick(K, q))

\* Keyboard.activateContext(name)
KeyActivateContext(name) ==
    /\ Len(contextStack) < MaxKeyDepth \/ IndexOf(contextStack, name) >= 0
    /\ KeyCommit("activateContext", name, Keyboard_activateContext(K, name))

\* Keyboard.popContext(name, keepNamed)
KeyPopContext(name, keepNamed) ==
    KeyCommit("popContext", name, Keyboard_popContext(K, name, keepNamed))

\* Keyboard.clearContexts()
KeyClearContexts == KeyCommit("clearContexts", "", Keyboard_clearContexts(K))

\* A key is pressed: what is emitted is the bindings that fire
KeyPressed(key) ==
    /\ keyCall' = [op |-> "key", name |-> key]
    /\ emitted' = {<<"keyboard", l[1], l[2]>> : l \in Fires(K, key)}
    /\ UNCHANGED <<contextStack, jsContext, jsListeners, quick>>
    /\ UNCHANGED <<managerVars, dragVars, gridContext>>
    /\ UNCHANGED <<interactives, used, idsForRemoval, pressed, listeners>>

\* The names the application gives its keyboard contexts, and the keys it
\* binds
KeyContexts == {"game", "menu"}
Keys == {"left", "esc"}

\* The Keyboard under the calls of the application and the keys
KeyboardInit == Init

KeyboardNext ==
    \/ \E key \in Keys : AddQuickContext(key)
    \/ \E q \in quick : DisposeQuick(q)
    \/ \E name \in KeyContexts : KeyActivateContext(name)
    \/ \E name \in KeyContexts \cup {""}, keepNamed \in BOOLEAN : KeyPopContext(name, keepNamed)
    \/ KeyClearContexts
    \/ \E key \in Keys : KeyPressed(key)

KeyboardSpec == KeyboardInit /\ [][KeyboardNext]_vars

\* A timer may be set: no element is focused beyond the bound
TimeoutRoom == Cardinality(timeouts) < MaxTimeouts

\* The elements whose alwaysDwell the application sets
AlwaysDwells == {"b"}

\* A manager with a context of two elements, which dwell is switched on and
\* off in, under the tab key, the mouse passing over the elements and
\* pressing them, the application's focus(), blur() and visible, and the
\* dwell timers
DwellInit ==
    /\ Construct(DefaultOpts) /\ Interactives(NotDraggable) /\ Controller(NoController)

DwellNext ==
    \/ /\ Len(contexts) = 0
       /\ ActivateContext([name |-> "m", items |-> <<"a", "b">>,
                           allowBaseline |-> "undefined", hooks |-> FALSE], FALSE)
    \/ \E item \in AlwaysDwells, v \in BOOLEAN : SetAlwaysDwell(item, v)
    \/ \E v \in BOOLEAN : SetEnabled(v)
    \/ \E v \in BOOLEAN : SetUseDwell(v)
    \/ TimeoutRoom /\ NextKey
    \/ TimeoutRoom /\ \E item \in PointerItems : FocusItem(item)
    \/ \E item \in PointerItems : BlurItem(item)
    \/ \E item \in PointerItems, v \in BOOLEAN : SetVisible(item, v)
    \/ TimeoutRoom /\ \E item \in PointerItems, inside \in BOOLEAN :
                        PointerOverOut(item, MouseId, inside)
    \/ Cardinality(pressed) < MaxDragPointers /\
          \E item \in PointerItems : PointerDown(MouseId, item)
    \/ PointerUp(MouseId)
    \/ \E id \in 1..(MaxTimeouts + 2) : Timeout(id)

DwellSpec == DwellInit /\ [][DwellNext]_vars

\* The draggable options of the elements that are activated
ActivationDraggables ==
    { [a |-> s, b |-> "None"] : s \in {"None", "DragOnly", "DragOrClick"} }

ActivationInit ==
    /\ Construct(DefaultOpts)
    /\ \E d \in ActivationDraggables : Interactives(d)
    /\ Controller(NoController)

ActivationNext ==
    \/ \E ctx \in PointerContexts : Len(contexts) = 0 /\ ActivateContext(ctx, FALSE)
    \/ \E v \in BOOLEAN : SetEnabled(v)
    \/ \E v \in BOOLEAN : SetUseDwell(v)
    \/ TimeoutRoom /\ NextKey
    \/ TimeoutRoom /\ \E item \in PointerItems, id \in DragPointerIds, inside \in BOOLEAN :
                        PointerOverOut(item, id, inside)
    \/ \E id \in DragPointerIds, target \in PointerItems \cup {NoItem} :
          Cardinality(pressed) < MaxDragPointers /\ PointerDown(id, target)
    \/ \E id \in DragPointerIds, far \in BOOLEAN : PointerMove(id, far)
    \/ \E id \in DragPointerIds : PointerUp(id)
    \/ DeleteIdsLater
    \/ Activate
    \/ \E id \in 1..(MaxTimeouts + 2) : Timeout(id)

\* Two elements activated by the mouse, a touch, the keys and the dwell timers
ActivationSpec == ActivationInit /\ [][ActivationNext]_vars

\* A manager built with any options, whose elements are shown and hidden and
\* which is enabled and disabled, under the plain stack operations, the mouse
\* passing over the elements.
TabInit ==
    \E g \in {"exit", "loop"}, f \in BOOLEAN :
        /\ Construct([groupEnd |-> g, focusWhenDisabled |-> f, control |-> "default"])
        /\ Interactives(NotDraggable)
        /\ Controller(NoController)

TabNext ==
    \/ \E ctx \in FullContexts : ActivateContext(ctx, FALSE)
    \/ \E item \in Items : EnterGroup(item)
    \/ PopContext("", FALSE)
    \/ \E b \in Baselines : SetBaseline(b.prepend, b.append)
    \/ FocusNext
    \/ \E item \in Toggled, v \in BOOLEAN : SetVisible(item, v)
    \/ \E item \in PointerItems, inside \in BOOLEAN : PointerOverOut(item, MouseId, inside)
    \/ \E v \in BOOLEAN : SetEnabled(v)

TabSpec == TabInit /\ [][TabNext]_vars

(* ------------------------------- claims ------------------------------- *)

\* Some context of the stack carries the name
OnStack(name) == \E k \in DOMAIN contexts : contexts[k].name = name

\* The contexts activateContext is called with, arrays under their names
ActivateInputs ==
    FullContexts \cup
    { [name |-> name, items |-> items, allowBaseline |-> "true", hooks |-> FALSE] :
        name \in RandIntNames, items \in ArrayContexts }

\* An activateContext step with the context, whatever way it is passed
ActivateStep(ctx, asChild) ==
    \/ ctx \in FullContexts /\ ActivateContext(ctx, asChild)
    \/ ctx \notin FullContexts /\ ActivateArray(ctx.items, ctx.name, asChild)

\* The order the composition rule gives for a stack and a baseline
ExpectedList(ctxs, base) ==
    IF Len(ctxs) = 0 THEN base.prepend \o base.append
    ELSE IF ctxs[Len(ctxs)].allowBaseline
         THEN base.prepend \o ctxs[Len(ctxs)].items \o base.append
         ELSE ctxs[Len(ctxs)].items

C2_NamesUnique ==
    \A j, k \in DOMAIN contexts : j # k => contexts[j].name # contexts[k].name

\* A name was activated again on a stack of two contexts
C2_Witness ==
    /\ lastCall = "reactivateTop"
    /\ Len(contexts) = 2

\* C3: the tabbable list is baseline-prepend, the top context's items and
\* baseline-append when the top context allows the baseline, the items alone
\* when it does not, and the baseline alone on an empty stack; a baseline of
\* [a] and [b] under an allowing context of [c] gives [a, c, b].
C3_ListComposed ==
    /\ currentContext.items = ExpectedList(contexts, baselineContext)
    /\ ( /\ baselineContext = [prepend |-> <<"a">>, append |-> <<"b">>]
         /\ Len(contexts) > 0
         /\ contexts[Len(contexts)].items = <<"c">>
         /\ contexts[Len(contexts)].allowBaseline )
       => currentContext.items = <<"a", "c", "b">>

\* The baseline was set and a context of [c] that allows it is on top
C3_Witness ==
    /\ Len(contexts) > 0
    /\ contexts[Len(contexts)].items = <<"c">>
    /\ currentContext.items = <<"a", "c", "b">>

\* The manager as a call finds it
Now == M(NoEnv)

\* A step of next() or of prev()
TabStep == NextKey \/ PrevKey

\* C4: the element that next() or prev() gives the focus to is focusable and
\* is not pointerOnly, whatever the tabbable list, a list of length 1 included.
C4_TabFocusEligible ==
    [][(TabStep /\ current' # current /\ current' # NoItem)
          => (focusable(Now, current') /\ ~pointerOnly(current'))]_vars

\* No element of the tabbable list is focusable and not pointerOnly
NoneEligible == \A k \in DOMAIN currentContext.items : ~Eligible(Now, currentContext.items[k])

\* C5: next() and prev() return on every tabbable list, and on a list that is
\* empty or holds no focusable element that is not pointerOnly they leave the
\* focused element and the context stack unchanged.
C5_TabTerminates ==
    [][TabStep => /\ pc' = "idle"
                  /\ NoneEligible => UNCHANGED <<current, contexts>>]_vars

\* The elements of a sequence are distinct
Distinct(list) == Cardinality(Range(list)) = Len(list)

\* The element after an element of a cyclic list, and the one before it
Succ(list, e) == list[((IndexOf(list, e) + 1) % Len(list)) + 1]
Pred(list, e) == list[((IndexOf(list, e) + Len(list) - 1) % Len(list)) + 1]

\* The focus is on an element of a tabbable list of N >= 1 distinct elements
\* that are all focusable and not pointerOnly
OnCycle ==
    /\ Len(currentContext.items) >= 1
    /\ Distinct(currentContext.items)
    /\ \A k \in DOMAIN currentContext.items : Eligible(Now, currentContext.items[k])
    /\ Includes(currentContext.items, current)
    /\ activeElement = current

\* The element n calls of next() (dir = 1) or prev() (dir = -1) reach from e
RECURSIVE TabFrom(_, _, _)
TabFrom(e, dir, n) ==
    IF n = 0 THEN e
    ELSE TabTarget([Now EXCEPT !.current = TabFrom(e, dir, n - 1)], dir)

\* N calls of next() from the focused element visit every element of the
\* list and end on the focused element
CycleClosed ==
    LET N == Len(currentContext.items)
    IN /\ { TabFrom(current, 1, n) : n \in 1..N } = Range(currentContext.items)
       /\ TabFrom(current, 1, N) = current

PlainCycle ==
    /\ OnCycle
    /\ focusEnabled(Now)
    /\ \A k \in DOMAIN currentContext.items : ~IsSentinel(currentContext.items[k])

PopMissing ==
    \E name \in PopNames \ {""}, keepNamed \in BOOLEAN :
        ~OnStack(name) /\ PopContext(name, keepNamed)

\* C7 as stated: popContext with a name that no stack entry carries changes
\* neither the stack, nor the tabbable list, nor the extended family, nor the
\* focused element.
C7_PopMissingNoOp ==
    [][PopMissing => UNCHANGED <<contexts, currentContext, current>>]_vars

\* C7: popContext with a name that no stack entry carries leaves the stack,
\* the tabbable list and the extended family unchanged and clears the focus.
C7_PopMissingClearsFocus ==
    [][PopMissing => /\ UNCHANGED <<contexts, currentContext>>
                     /\ current' = NoItem
                     /\ removed' = {}]_vars

\* A name that is not on the stack was popped from a stack that is not empty
C7_Witness ==
    /\ lastCall = "popMissing"
    /\ Len(contexts) > 0
    /\ current = NoItem
    /\ enabled

\* C8 as stated: replaceCurrentContext with a context whose name no stack
\* entry carries changes neither the stack nor the tabbable list.
C8_ReplaceMissingNoOp ==
    [][\A ctx \in ReplaceContexts :
          (~OnStack(ctx.name) /\ ReplaceCurrentContext(ctx))
             => UNCHANGED <<contexts, currentContext>>]_vars

\* C8: replaceCurrentContext with a named context whose name no stack entry
\* carries activates it: a context with its name and items and no parent is
\* pushed over the unchanged stack and the tabbable list is generated from
\* it; with an unnamed context it replaces the items of the top context, and
\* activates the context when the stack is empty.
C8_ReplaceMissingActivates ==
    [][\A ctx \in ReplaceContexts :
          (~OnStack(ctx.name) /\ ReplaceCurrentContext(ctx)) =>
             LET n == Len(contexts)
             IN /\ (ctx.name # "" \/ n = 0) =>
                      /\ Len(contexts') = n + 1
                      /\ SubSeq(contexts', 1, n) = contexts
                      /\ contexts'[n + 1].name = ctx.name
                      /\ contexts'[n + 1].items = ctx.items
                      /\ contexts'[n + 1].parent = 0
                /\ (ctx.name = "" /\ n > 0) =>
                      /\ Len(contexts') = n
                      /\ contexts' = [contexts EXCEPT ![n].items = ctx.items]
                /\ currentContext'.items = ExpectedList(contexts', baselineContext')]_vars

\* A context whose name was not on the stack was given to replaceCurrentContext
\* and is on top of another context
C8_Witness ==
    /\ lastCall = "replaceMissing"
    /\ Len(contexts) = 2
    /\ contexts[2].parent = 0

\* C9: popContext() removes exactly the top context, popContext(name) with
\* the name at index i leaves the contexts 0..i-1, popContext(name, true)
\* leaves the contexts 0..i, the contexts left being unchanged, and the
\* tabbable list is the one generated from the new top.
C9_PopTruncates ==
    [][\A name \in PopNames, keepNamed \in BOOLEAN :
          ((name = "" \/ OnStack(name)) /\ PopContext(name, keepNamed)) =>
             LET n == Len(contexts)
                 i == FindIndex(contexts, name)
                 left == IF name = "" THEN (IF n = 0 THEN 0 ELSE n - 1)
                         ELSE IF keepNamed THEN i + 1 ELSE i
             IN /\ contexts' = SubSeq(contexts, 1, left)
                /\ currentContext'.items = ExpectedList(contexts', baselineContext')
                /\ baselineContext' = baselineContext]_vars

\* popContext(name, true) removed what was over the named context
C9_Witness ==
    /\ lastCall = "popKeep"
    /\ Len(contexts) = 1
    /\ removed # {}

\* C10: the cleanup group of every context removed from the stack has been
\* disposed exactly once, and that of no context on the stack has been disposed.
C10_CleanupDisposedOnce ==
    /\ \A d \in removed : d = 1
    /\ \A k \in DOMAIN contexts : contexts[k].disposals = 0

\* The elements under a group that are neither groups nor keyboardOnly
RECURSIVE Descendants(_)
Descendants(item) ==
    UNION { IF isGroup(child) THEN Descendants(child)
            ELSE IF keyboardOnly(child) THEN {} ELSE {child} :
            child \in Range(childContext(item)) }

\* The stack positions up the parent chain of the context at position k
RECURSIVE ParentChain(_)
ParentChain(k) ==
    IF k = 0 \/ contexts[k].parent = 0 THEN {}
    ELSE {contexts[k].parent} \cup ParentChain(contexts[k].parent)

\* The extended family the stack and the tabbable list call for
ExpectedFamily ==
    LET list    == Range(currentContext.items)
        parents == UNION { Range(contexts[k].items) : k \in ParentChain(Len(contexts)) }
    IN ( UNION { Descendants(item) : item \in list \cup parents }
         \cup { item \in parents : ~isGroup(item) /\ ~keyboardOnly(item) } ) \ list

\* C11: the extended family is the set computed from the stack: the
\* descendants, neither groups nor keyboardOnly, of the groups of the tabbable
\* list, and the items, neither groups nor keyboardOnly, of the contexts up
\* the parent chain of the top context with their descendants, less the
\* elements of the tabbable list.
C11_FamilyFromStack ==
    Range(currentContext.extendedFamily) = ExpectedFamily

\* C12: no element occurs twice in the tabbable list followed by the extended
\* family: each of the two is free of duplicates and they are disjoint.
C12_NoDuplicates ==
    Distinct(currentContext.items \o currentContext.extendedFamily)

\* The element emitted the event in the step
Emits(item, event) == \E e \in emitted' : e[1] = item /\ e[2] = event

\* The element reacted in the step: it emitted an event or its drag changed
Reacts(item) ==
    \/ \E e \in emitted' : e[1] = item
    \/ interactives'[item].currentDragType # interactives[item].currentDragType

\* A pointer moved or went up
MoveOrUp(id) == PointerUp(id) \/ \E far \in BOOLEAN : PointerMove(id, far)

\* Another element claimed the id on its pointer-down and the pointer is
\* still down
ClaimedByOther(item, id) ==
    /\ id \in used /\ id \in pressed
    /\ \E other \in PointerItems \ {item} : interactives[other].activePointerId = id

\* C13: while the manager is enabled, for an element in a StickyTap drag, a
\* touch release with a pointer id that is not the element's and that no
\* element has claimed emits dragStop and ends the drag, and a move or a
\* release of a pointer id that another element claimed on its pointer-down
\* emits nothing on the element and leaves its drag as it is.
C13_StickyTapRelease ==
    [][\A item \in PointerItems, id \in PointerIds :
          (enabled /\ interactives[item].currentDragType = "StickyTap") =>
             /\ ( /\ PointerUp(id) /\ isTouch(id)
                  /\ id # interactives[item].activePointerId
                  /\ id \notin used )
                => (Emits(item, "dragStop") /\ interactives'[item].currentDragType = "None")
             /\ (MoveOrUp(id) /\ ClaimedByOther(item, id))
                => (~Reacts(item) /\ interactives'[item] = interactives[item])]_vars

\* C14: at most one element reacts to a pointer move or release, whatever
\* drags the elements are in.
C14_OneElementReacts ==
    [][\A id \in PointerIds :
          MoveOrUp(id) => Cardinality({ item \in PointerItems : Reacts(item) }) <= 1]_vars

\* The events of the kinds given that the controller emitted in the last step
ControllerEvents(kinds) == { e \in emitted : e[1] = "controller" /\ e[2] \in kinds }

\* A pointer drag of a DropAreaDrag ends in the step: a pointer goes up or is
\* cancelled and the dragged element, which was in a drag, is in none
PointerDragEnds ==
    /\ controller.kind = "DropAreaDrag"
    /\ pressed' # pressed /\ pressed' \subseteq pressed
    /\ interactives[Dragged].currentDragType # "None"
    /\ interactives'[Dragged].currentDragType = "None"

\* What the claim expects of the drop test the step ran: dragComplete with
\* the index of a drop area hit (the result of testDropAreas when it is not
\* negative), dragFailed when none is hit
OutcomeAsTested ==
    IF controller.testDropAreas
    THEN IF tested.result >= 0
         THEN <<"controller", "dragComplete", ToString(tested.result)>> \in emitted
         ELSE <<"controller", "dragFailed", "None">> \in emitted
    ELSE IF tested.areas # {}
         THEN \E k \in tested.areas : <<"controller", "dragComplete", ToString(k)>> \in emitted
         ELSE <<"controller", "dragFailed", "None">> \in emitted

\* C15: when a pointer drag handled by DropAreaDrag ends, exactly one of
\* dragComplete and dragFailed is emitted: dragComplete(target, k) when the
\* target's final place hits drop area k (or testDropAreas returns k >= 0),
\* dragFailed(target) when no drop area is hit.
C15_OneOutcome ==
    [][PointerDragEnds =>
          /\ Cardinality(ControllerEvents({"dragComplete", "dragFailed"}))' = 1
          /\ tested'.ran => OutcomeAsTested']_vars

\* The keys activated the element in the step (onActivate with no position)
KeyActivated(item) == <<item, "onActivate", "null">> \in emitted'

\* The drop context is the top of the stack
DropContextOnTop ==
    /\ contexts # <<>>
    /\ contexts[Len(contexts)].name = dropContext.name
    /\ contexts[Len(contexts)].items = dropContext.items

\* C16: in DropAreaDrag, a keyboard activation of the dragged item while
\* idle pushes the drop context and emits dragStarted with type Keyboard; a
\* keyboard activation of it while the keyboard drag is active pops the drop
\* context and returns to idle without emitting dragComplete; activating drop
\* target k while the keyboard drag is active pops the drop context, returns
\* to idle and emits dragComplete(target, k) exactly once.
C16_KeyboardDrag ==
    [][controller.kind = "DropAreaDrag" =>
         /\ KeyActivated(Dragged) /\ currentDrag = "None" =>
               /\ DropContextOnTop'
               /\ currentDrag' = "Keyboard"
               /\ ControllerEvents({"dragStarted"})' =
                     {<<"controller", "dragStarted", "Keyboard">>}
         /\ KeyActivated(Dragged) /\ currentDrag = "Keyboard" =>
               /\ ~OnStack(dropContext.name)'
               /\ currentDrag' = "None"
               /\ ControllerEvents({"dragComplete", "dragStarted"})' = {}
         /\ \A k \in 0..(Len(dropAreas) - 1) :
               /\ currentDrag = "Keyboard"
               /\ \E e \in emitted' : e[1] = dropAreas[k + 1] /\ e[2] = "onActivate"
               => /\ ~OnStack(dropContext.name)'
                  /\ currentDrag' = "None"
                  /\ ControllerEvents({"dragComplete", "dragFailed"})' =
                        {<<"controller", "dragComplete", ToString(k)>>}]_vars

\* A keyboard drag was dropped with the keys on the second drop area
C16_Witness ==
    /\ controller.kind = "DropAreaDrag"
    /\ <<"c", "onActivate", "null">> \in emitted
    /\ <<"controller", "dragComplete", "1">> \in emitted
    /\ ~OnStack(dropContext.name)

\* C17: cancel() on a drag controller (StandardDrag, KeyboardFreeDrag,
\* UnifiedDrag, DropAreaDrag) emits neither dragComplete nor dragFailed, and
\* after it no event (pointer move or release, frame tick, key) moves the
\* target or emits dragComplete until a new drag is started.
C17_CancelIsSilent ==
    [][cancelled' =>
          /\ ControllerEvents({"dragComplete", "dragFailed"})' = {}
          /\ <<"target", "moved", "None">> \notin emitted'
          /\ <<"keyboard", "dragComplete", "None">> \notin emitted']_vars

\* cancel() was called while the dragged element held the pointer that is
\* still down: the id it freed waits for removal
C17_Witness ==
    /\ cancelled
    /\ idsForRemoval \cap pressed # {}
    /\ interactives[Dragged].activePointerId = NoPointer
    /\ ~interactives[Dragged].listening

\* The step is a call of move(d[1], d[2])
Moved(d) == lastCall' = MoveKey(d[1], d[2])

\* The document's focus and the manager's focus stay as they are
FocusUnchanged == UNCHANGED <<current, activeElement>>

\* The focus is on the item at the place after the step
LandsOn(x, y) ==
    /\ activeElement' = Cell(x, y)
    /\ enabled => current' = Cell(x, y)

\* C18: GridContext.move(dx, dy) terminates for every grid, tracked position
\* and combination of arrowSkipsGaps and arrowLoopsAtEdges; when there is no
\* occupied cell to land on, focus and the context stack are unchanged.
C18_MoveTerminates ==
    [][\A d \in Directions : Moved(d) =>
          /\ pc' = "idle"
          /\ Landing(gridContext, d[1], d[2]) = NoLanding =>
                FocusUnchanged /\ UNCHANGED <<contexts, currentContext>>]_vars

\* The places further along from the tracked place in a direction, inside
\* the grid, that hold an item
Along(g, d) ==
    { k \in 1..(MaxGridWidth + MaxGridHeight) :
        <<g.gridX + k * d[1], g.gridY + k * d[2]>> \in g.cells }

\* The neighbour of the tracked place in the direction is a gap of the grid
NeighbourIsGap(g, d) ==
    /\ <<g.gridX + d[1], g.gridY + d[2]>> \in Places
    /\ <<g.gridX + d[1], g.gridY + d[2]>> \notin g.cells

OffEdge(g, d) == <<g.gridX + d[1], g.gridY + d[2]>> \notin Places
Opposite(g, d) ==
    <<IF d[1] < 0 THEN g.gridWidth - 1 ELSE IF d[1] > 0 THEN 0 ELSE g.gridX,
      IF d[2] < 0 THEN g.gridHeight - 1 ELSE IF d[2] > 0 THEN 0 ELSE g.gridY>>

EscStep == lastCall' = "esc"

\* The top context has a parent
TopHasParent == Len(contexts) > 0 /\ contexts[Len(contexts)].parent # 0

\* The tab lock is held under the strategy that ESC releases it in
LockHeld == opts.control = "lockEsc" /\ controlsListener

\* What ESC does in each of the three cases
EscAsStated ==
    /\ TopHasParent => contexts' = SubSeq(contexts, 1, Len(contexts) - 1)
    /\ ~TopHasParent /\ LockHeld =>
          ~controlsListener' /\ UNCHANGED <<contexts, current, activeElement>>
    /\ ~TopHasParent /\ ~LockHeld => current' = NoItem /\ UNCHANGED contexts
    /\ opts.control = "lock" => controlsListener /\ controlsListener'

\* C21: on ESC, in every state, the top context is popped if it has a parent;
\* otherwise the tab lock is released under LockedIn when it is held, focus and
\* stack staying as they are; otherwise the focused element is cleared; under
\* LockedInNoEsc the lock is never released
C21_EscAsStated == [][EscStep => EscAsStated]_vars

\* The same of the states whose stack holds a context
C21_EscWithContext == [][EscStep /\ Len(contexts) > 0 => EscAsStated]_vars

\* ESC was pressed on an empty stack while the lock was held, or while an
\* element was focused
C21_EmptyStack ==
    /\ lastCall = "esc"
    /\ contexts = <<>>
    /\ (opts.control = "lockEsc" /\ controlsListener) \/ current # NoItem

\* A dwell timer fired in the step
DwellStep == lastCall' = "dwell" /\ timeouts' # timeouts

\* The timers that are set for the element
TimeoutsOf(item) == {t \in timeouts : t[2] = item}

\* The manager took the focus of an element in the step with dwell on for
\* it, the manager enabled and no pointer holding the element
DwellFocus ==
    /\ current' # NoItem /\ current' # current
    /\ enabled'
    /\ useDwell' \/ current' \in alwaysDwell'
    /\ current' \in PointerItems => interactives'[current'].activePointerId < 0

\* A timer that fires activates the focused element, once, if the manager is
\* enabled and no pointer holds the element, and no other element
DwellActivates ==
    DwellStep =>
       emitted' = IF enabled /\ current # NoItem
                     /\ interactives[current].activePointerId < 0
                  THEN {<<current, "onActivate", "null">>} ELSE {}

\* Every timer that is set is of the focused element, and no two are set: an
\* element that lost the focus is not activated, and the focused one once
TimersOfFocused ==
    /\ Cardinality(timeouts) <= 1
    /\ \A t \in timeouts : t[2] = current

\* C22: with dwell on and the manager enabled, focusing an element that is
\* not held schedules one activation, which the element gets exactly once if
\* it stays focused and unheld for the delay; an element that is blurred, or
\* that focus moved away from, gets none, and a timer that fires activates
\* no element but the focused one
C22_DwellAsStated ==
    [][/\ DwellFocus => Cardinality(timeouts') = 1
       /\ TimersOfFocused'
       /\ DwellActivates]_vars

\* A timer fires while the element it was set for is hidden and another
\* element's timer is set as well: the focused element is activated twice
C22_TwoTimers ==
    /\ Cardinality(timeouts) = 2
    /\ \E t \in timeouts : t[2] \in hidden /\ t[2] # current
    /\ current # NoItem /\ enabled

\* addQuickContext returned in the step
QuickAdded == keyCall'.op = "addQuickContext"

\* The Disposable that addQuickContext returned in the step before is
\* disposed in the step
QuickDisposed ==
    /\ keyCall.op = "addQuickContext"
    /\ keyCall'.op = "dispose" /\ keyCall'.name = keyCall.name

\* C23: after addQuickContext returns, the context it created is the top of
\* the keyboard context stack and the context KeyboardJS is in, so that its
\* bindings fire; after the Disposable it returned is disposed, the stack and
\* the context are what they were before the call
C23_QuickContext ==
    [][/\ QuickAdded =>
             /\ Len(contextStack') > 0
             /\ contextStack'[Len(contextStack')] = keyCall'.name
             /\ jsContext' = keyCall'.name
             /\ \E l \in jsListeners' :
                   l[1] = keyCall'.name /\ l[1] \in {jsContext', baseContext}
       /\ QuickDisposed =>
             \A q \in quick \ quick' :
                 contextStack' = q.stack /\ jsContext' = q.context]_vars

\* The second half alone: disposing the Disposable at once leaves the stack
\* and the context as addQuickContext found them
C23_DisposeRestores ==
    [][QuickDisposed =>
          \A q \in quick \ quick' :
              contextStack' = q.stack /\ jsContext' = q.context]_vars

\* A key bound by a quick context that is not disposed is pressed and no
\* binding of the quick context fires
C23_NeverFires ==
    /\ keyCall.op = "key"
    /\ \E q \in quick : q.key = keyCall.name /\ <<"keyboard", q.name, q.key>> \notin emitted

\* enterGroup activated a context in the step and returned
Entered == returned' # ""

\* The string enterGroup returned names the top context
ReturnedOnTop ==
    /\ Len(contexts) > 0
    /\ contexts[Len(contexts)].name = returned

\* C24: whenever enterGroup activates a context, for an array or a complex
\* child context, with or without exit elements, the string it returns is
\* the name of the context on top of the stack: hasContext(returned) holds
\* and popContext(returned) removes that context
C24_ReturnsName ==
    [][/\ Entered => ReturnedOnTop'
       /\ lastCall' = "popReturned" =>
             contexts' = SubSeq(contexts, 1, Len(contexts) - 1)]_vars

\* The same of the calls whose child context is an array
C24_ArrayReturnsName ==
    [][/\ Entered /\ contexts'[Len(contexts')].name # "k" => ReturnedOnTop'
       /\ lastCall' = "popReturned" /\ contexts[Len(contexts)].name # "k" =>
             contexts' = SubSeq(contexts, 1, Len(contexts) - 1)]_vars

\* enterGroup was called with a complex context, which is on top of the
\* stack under its own name
C24_ComplexEntered ==
    /\ returned # ""
    /\ Len(contexts) > 0 /\ contexts[Len(contexts)].name = "k"

\* The top context is the context of an entered group whose child context
\* is an array, with its exit elements, the group item being an element of
\* the context below
InGroup ==
    /\ Len(contexts) > 1
    /\ contexts[Len(contexts)].exits /\ contexts[Len(contexts)].name # "k"
    /\ Includes(contexts[Len(contexts) - 1].items, contexts[Len(contexts)].group)

\* The tab key is pressed with the last child focused, or shift + tab with
\* the first, while the manager is enabled
ExitStep ==
    /\ InGroup
    /\ enabled
    /\ LET items == contexts[Len(contexts)].items
       IN \/ lastCall' = "next" /\ current = items[Len(items) - 1]
          \/ lastCall' = "prev" /\ current = items[2]

\* The group's context alone is popped and the group item is focused
ExitsToGroup ==
    /\ contexts' = SubSeq(contexts, 1, Len(contexts) - 1)
    /\ current' = contexts[Len(contexts)].group
    /\ activeElement' = contexts[Len(contexts)].group

\* C25: with the Exit strategy, after enterGroup(item) on an array child
\* context, next() past the last child and prev() before the first child pop
\* exactly the group's context, the stack being what it was before
\* enterGroup, and leave the group item focused
C25_ExitAsStated == [][ExitStep => ExitsToGroup]_vars

\* The element is idle: it holds no pointer id and is in no drag
Idle(el) == el.activePointerId = NoPointer /\ el.currentDragType = "None"

\* transferDrag is called between two events during a drag on Dragged
TransferCalled ==
    /\ interactives[Dragged].currentDragType # "None"
    /\ TransferDrag(Dragged, Recipient)

\* transferDrag is called by the dragStart listener of Dragged in the step,
\* and the event ends with the call: the recipient had no window listeners
\* that the same event would reach after the call
TransferInHandler ==
    /\ controller.kind = "Transfer"
    /\ ~interactives[Recipient].listening
    /\ \E e \in emitted' : e[1] = Dragged /\ e[2] = "dragStart"

\* The pointer id Dragged held when it handed its drag over: the one it held
\* before the step, or the one that went down on it in the step
FormerId ==
    IF interactives[Dragged].activePointerId # NoPointer
    THEN interactives[Dragged].activePointerId
    ELSE CHOOSE id \in DragPointerIds : pressed' = pressed \cup {id}

\* The drag type Dragged handed over
FormerType ==
    IF interactives[Dragged].currentDragType # "None"
    THEN interactives[Dragged].currentDragType
    ELSE (CHOOSE e \in emitted' : e[1] = Dragged /\ e[2] = "dragStart")[3]

\* The recipient holds the id and the type, the giver is idle, and an id that
\* was claimed stays claimed: the step does not free it
HandedOver ==
    /\ interactives'[Recipient].activePointerId = FormerId
    /\ interactives'[Recipient].currentDragType = FormerType
    /\ Idle(interactives'[Dragged])
    /\ FormerId \in used \cup used' =>
          FormerId \in used' /\ (FormerId \in idsForRemoval' => FormerId \in idsForRemoval)

\* A pointer event for the id the recipient holds emits on the recipient
\* only: dragMove for a move, dragStop for a release
RecipientOnly ==
    LET id == interactives[Recipient].activePointerId
    IN (interactives[Recipient].currentDragType # "None" /\ Idle(interactives[Dragged])) =>
          /\ (\E far \in BOOLEAN : PointerMove(id, far)) =>
                /\ \E e \in emitted' : e[1] = Recipient /\ e[2] = "dragMove"
                /\ \A e \in emitted' : e[1] # Dragged
          /\ PointerUp(id) =>
                /\ \E e \in emitted' : e[1] = Recipient /\ e[2] = "dragStop"
                /\ \A e \in emitted' : e[1] # Dragged

\* C26: after a.transferDrag(b) during a drag on a, b holds a's former pointer
\* id and drag type, a is idle, the id stays claimed, and every later move or
\* release for that pointer emits dragMove or dragStop on b and nothing on a;
\* the same when transferDrag is called inside a's dragStart handler.
C26_TransferAsStated ==
    [][/\ (TransferCalled \/ TransferInHandler) => HandedOver
       /\ RecipientOnly]_vars

\* C26, the hand-over alone
C26_HandedOver == [][(TransferCalled \/ TransferInHandler) => HandedOver]_vars

\* C26, the later events while the manager is enabled and the recipient is
\* draggable
C26_LaterEvents ==
    [][(enabled /\ interactives[Recipient].draggable # "None") => RecipientOnly]_vars

\* A drag was handed over by the dragStart listener, and by a call between events
C26_HandedInHandler ==
    /\ controller.kind = "Transfer"
    /\ interactives[Recipient].currentDragType = "StickyTap"
    /\ Idle(interactives[Dragged])

\* The drag types of a gesture
GestureTypes == {"Held", "StickyClick", "StickyTap"}

\* The events of the kinds given that the element emitted in the step
DragEvents(item, kinds) == { e \in emitted' : e[1] = item /\ e[2] \in kinds }

\* dragStart and dragMove carry the type of the drag the element is in after
\* the step
StartAndMoveTyped(item) ==
    \A e \in DragEvents(item, {"dragStart", "dragMove"}) :
        e[3] \in GestureTypes /\ e[3] = interactives'[item].currentDragType

\* dragStop carries the type of the drag it ends, the one the element was in
\* before the step
StopTyped(item) ==
    \A e \in DragEvents(item, {"dragStop"}) :
        e[3] \in GestureTypes /\ e[3] = interactives[item].currentDragType

\* C27: every dragStart, dragMove and dragStop an element emits carries the
\* drag type of its gesture (Held, StickyClick or StickyTap), and a dragStop
\* the type of the dragStart of the drag it ends.
C27_CarriesType ==
    [][\A item \in PointerItems : StartAndMoveTyped(item) /\ StopTyped(item)]_vars

\* C27 for dragStart and dragMove alone
C27_StartAndMove == [][\A item \in PointerItems : StartAndMoveTyped(item)]_vars

\* C27: a dragStop ends a drag that has a type, and carries None
C27_StopCarriesNone ==
    [][\A item \in PointerItems :
          \A e \in DragEvents(item, {"dragStop"}) :
              e[3] = "None" /\ interactives[item].currentDragType \in GestureTypes]_vars

\* A drag was going on and a dragStop has just been emitted
C27_Stopped == \E e \in emitted : e[2] = "dragStop" /\ e[1] \in PointerItems

\* The onActivate events of the step that carry a position
Positioned == { e \in emitted' : e[2] = "onActivate" /\ e[3] # "null" }

\* The pointer with the id is released inside the element, as far as the
\* browser told the element: it holds the id and the pointer is in
ReleasedInside(item, id) ==
    /\ PointerUp(id)
    /\ interactives[item].activePointerId = id
    /\ interactives[item].pointerIn

\* The step is an activation by the keys or by a dwell timer
KeyOrDwell == Activate \/ \E id \in 1..(MaxTimeouts + 2) : Timeout(id)

\* C28: an element emits onActivate with a position only when the mouse, pen
\* or touch pointer is released inside its bounds; the activations by the keys
\* and by the dwell timer carry null.
C28_ActivateAsStated ==
    [][/\ \A e \in Positioned : \E id \in DragPointerIds : ReleasedInside(e[1], id)
       /\ KeyOrDwell => Positioned = {}]_vars

\* C28 for the mouse: onActivate with a position is emitted on a release of
\* the element's pointer, and for the mouse only with the pointer inside
C28_MouseInside ==
    [][\A e \in Positioned :
          \E id \in DragPointerIds :
             /\ PointerUp(id) /\ interactives[e[1]].activePointerId = id
             /\ ~isTouch(id) => interactives[e[1]].pointerIn]_vars

\* C28 for the keys and the dwell timer
C28_NullPosition ==
    [][KeyOrDwell => \A e \in emitted' : e[2] = "onActivate" => e[3] = "null"]_vars

\* An element was activated by a key or a timer, and by a pointer
C28_Activated ==
    \E e \in emitted : e[2] = "onActivate" /\ e[3] = "null" /\ lastCall = "dwell"

\* The manager's focused element is null or an element of the current
\* context: of its tabbable list or of its extended family
FocusInContext ==
    current = NoItem \/ current \in Document

\* C29: after every operation that changes the contexts (activateContext,
\* enterGroup, popContext, replaceCurrentContext, setBaseline, clearContexts)
\* the manager's focused element is null or a member of the current tabbable
\* list or extended family, never an element that was removed.
C29_FocusInContext == [][StackNext => FocusInContext']_vars

\* C29 for the operations that clear the focus before they change the stack;
\* enterGroup on an element without a child context returns at once
C29_ClearingOperations ==
    [][(\/ \E ctx \in FullContexts, asChild \in BOOLEAN : ActivateContext(ctx, asChild)
        \/ \E items \in ArrayContexts, name \in RandIntNames, asChild \in BOOLEAN :
              ActivateArray(items, name, asChild)
        \/ \E item \in Items : childContext(item) # <<>> /\ EnterGroup(item)
        \/ \E name \in PopNames, keepNamed \in BOOLEAN : PopContext(name, keepNamed)
        \/ ClearContexts) => FocusInContext']_vars

\* C29 for replaceCurrentContext, which tests the focus at its end
C29_Replace ==
    [][(\E ctx \in ReplaceContexts : ReplaceCurrentContext(ctx)) => FocusInContext']_vars

\* An element of a context is focused while the stack holds a context
C29_Focused == current # NoItem /\ current \in Document /\ Len(contexts) > 0

\* The 1-based place of the grid's own context on the stack, 0 when it is the
\* top or sits right below a column's sub-group on top; GridPlace is 0 in
\* every other state
GridPlace ==
    LET n == Len(contexts)
    IN IF n >= 1 /\ contexts[n].name = gridContext.name THEN n
       ELSE IF /\ n >= 2 /\ contexts[n - 1].name = gridContext.name
               /\ contexts[n].group \in DOMAIN gridContext.columns
       THEN n - 1
       ELSE 0

\* A direction key whose move finds an item to land on
SuccessfulMove ==
    \E d \in Directions :
       /\ Landing(gridContext, d[1], d[2]) \notin {NoLanding, NeverStops}
       /\ Move(d[1], d[2])

\* The grid's own context is the top, its items are the flat list of all
\* cells, and the contexts below it are as they were
FlatOnTop ==
    /\ Len(contexts') = GridPlace
    /\ contexts'[GridPlace].name = gridContext.name
    /\ contexts'[GridPlace].items = allItems(gridContext)
    /\ \A j \in 1..(GridPlace - 1) : contexts'[j] = contexts[j]

\* C30: with the grid's lines context or one of its column sub-groups on top
\* of the stack, a successful arrow move of a GridContext with tabSelection
\* column leaves the grid's own context on top with the flat list of all
\* cells as its items, pops only the sub-group, and changes no other context.
C30_FlatOnTop == [][(GridPlace > 0 /\ SuccessfulMove) => FlatOnTop]_vars

\* C30 while the grid's activeContext field tells what is on top: lines for
\* the grid's own context with the column groups, singleLine for a sub-group,
\* all for the flat list
ActiveContextTrue ==
    LET n == Len(contexts)
    IN CASE gridContext.activeContext = "singleLine" -> GridPlace = n - 1
         [] gridContext.activeContext = "lines" ->
               GridPlace = n /\ contexts[n].items = GridItems(gridContext).items
         [] OTHER -> GridPlace = n /\ contexts[n].items = allItems(gridContext)

C30_WhenTracked ==
    [][(GridPlace > 0 /\ ActiveContextTrue /\ SuccessfulMove) => FlatOnTop]_vars

\* A move from a sub-group has left the flat list on top
C30_MovedFromGroup ==
    /\ lastCall \in {"moveLeft", "moveRight", "moveUp", "moveDown"}
    /\ Len(contexts) = 1 /\ contexts[1].items = allItems(gridContext)
    /\ Len(allItems(gridContext)) > 1
    /\ gridContext.activeContext = "all"

\* The keyboard drag of a DropAreaDrag is under way
KeyboardDrag ==
    /\ controller.kind = "DropAreaDrag"
    /\ currentDrag = "Keyboard"
    /\ DropContextOnTop

\* C31: after ESC is released during a DropAreaDrag keyboard drag, the drop
\* context is no longer on the stack and the controller is idle, so that the
\* next keyboard activation of the dragged item starts a new keyboard drag
\* and a later activation of a former drop target emits no dragComplete.
C31_EscEndsDrag ==
    [][(KeyboardDrag /\ Esc) =>
          /\ ~OnStack(dropContext.name)'
          /\ currentDrag' = "None"]_vars

\* ESC during the keyboard drag runs handleEsc alone: the drop context has no
\* parent, the focus is cleared, and the drag goes on
C31_EscLeavesDrag ==
    [][(KeyboardDrag /\ Esc) =>
          /\ DropContextOnTop'
          /\ currentDrag' = "Keyboard"
          /\ current' = NoItem]_vars

\* popContext(dropContext.name), which the ESC listener of the drop context
\* calls, pops the drop context and leaves currentDrag as it is
C31_PopLeavesDrag ==
    [][(KeyboardDrag /\ PopContext(dropContext.name, FALSE)) =>
          /\ ~OnStack(dropContext.name)'
          /\ currentDrag' = "Keyboard"]_vars

\* With the drop context popped that way, the next keyboard activation of the
\* dragged item starts no drag
C31_NoNewDrag ==
    [][(/\ controller.kind = "DropAreaDrag"
        /\ currentDrag = "Keyboard"
        /\ ~OnStack(dropContext.name)
        /\ KeyActivated(Dragged)) =>
          /\ ControllerEvents({"dragStarted"})' = {}
          /\ ~OnStack(dropContext.name)']_vars

\* A click on a former drop area, the drop context popped, has emitted
\* dragComplete
C31_LateComplete ==
    /\ controller.kind = "DropAreaDrag"
    /\ <<"b", "onActivate", "None">> \in emitted
    /\ <<"controller", "dragComplete", "0">> \in emitted
    /\ lastCall # "key"

\* name is the top of the keyboard's stack and the context KeyboardJS is in
KeyOnTop(name) ==
    /\ Len(contextStack) > 0
    /\ contextStack[Len(contextStack)] = name
    /\ jsContext = name

\* C32: after Keyboard.activateContext(c), c is the top of the keyboard
\* context stack and the active key-binding context, whether c was new or
\* already on the stack; in the latter case only the contexts above c are
\* removed.
C32_ActivatedOnTop ==
    [][\A name \in KeyContexts :
          KeyActivateContext(name) =>
             /\ KeyOnTop(name)'
             /\ IndexOf(contextStack, name) >= 0 =>
                   contextStack' = SubSeq(contextStack, 1, IndexOf(contextStack, name) + 1)]_vars

\* C32 for a context that is not on the stack: it is pushed and made active,
\* and the contexts below stay
C32_NewOnTop ==
    [][\A name \in KeyContexts :
          (KeyActivateContext(name) /\ IndexOf(contextStack, name) < 0) =>
             /\ KeyOnTop(name)'
             /\ contextStack' = Append(contextStack, name)]_vars

\* For a context already on the stack, activateContext is popContext(c,
\* false): c goes with the contexts above it, and the context below it, or
\* the base context, is the active one
C32_ReactivatedPopped ==
    [][\A name \in KeyContexts :
          (KeyActivateContext(name) /\ IndexOf(contextStack, name) >= 0) =>
             /\ contextStack' = SubSeq(contextStack, 1, IndexOf(contextStack, name))
             /\ jsContext' = IF contextStack' = <<>> THEN baseContext
                             ELSE contextStack'[Len(contextStack')]
             /\ jsContext' # name]_vars

\* activateContext of the lower of two contexts has emptied the stack
C32_Emptied ==
    /\ keyCall.op = "activateContext"
    /\ contextStack = <<>>
    /\ jsContext = baseContext

\* Everything the element emitted in the step
EventsOf(item) == { e \in emitted' : e[1] = item }

\* The mouse is released on the element it went down on, no move having
\* reached minDragDist
ClickReleased(item) ==
    /\ interactives[item].activePointerId = MouseId
    /\ interactives[item].currentDragType = "None"
    /\ interactives[item].pointerIn
    /\ PointerUp(MouseId)

\* The three stages of a sticky click on the element: the click that arms
\* the drag, the moves, and the release that ends it
StickyClickStages(item) ==
    /\ ClickReleased(item) =>
          EventsOf(item) = {<<item, "dragStart", "StickyClick">>}
    /\ ( /\ interactives[item].currentDragType = "StickyClick"
         /\ \E far \in BOOLEAN : PointerMove(MouseId, far) ) =>
          EventsOf(item) = {<<item, "dragMove", "StickyClick">>}
    /\ (interactives[item].currentDragType = "StickyClick" /\ PointerUp(MouseId)) =>
          /\ DragEvents(item, {"dragStop"}) # {}
          /\ EventsOf(item) = DragEvents(item, {"dragStop"})
          /\ Idle(interactives'[item])
          /\ MouseId \in idsForRemoval'

\* C33: for a DragWithStickyClick element and a mouse pointer, a press and
\* release inside the element without reaching minDragDist emits dragStart
\* with type StickyClick and no onActivate; later mouse moves emit dragMove;
\* the next mouse release anywhere emits exactly one dragStop, after which
\* the element is idle and its pointer id is released from the registry.
C33_StickyClick ==
    [][\A item \in PointerItems :
          interactives[item].draggable = "DragWithStickyClick" =>
             StickyClickStages(item)]_vars

\* C33 while the manager is enabled
C33_WhileEnabled ==
    [][\A item \in PointerItems :
          (enabled /\ interactives[item].draggable = "DragWithStickyClick") =>
             StickyClickStages(item)]_vars

\* The deferred callback of the registry then drops the id
C33_Released ==
    [][DeleteIdsLater => idsForRemoval \cap used' = {}]_vars

\* A sticky click has ended with the second release
C33_Ended ==
    /\ interactives["b"].draggable = "DragWithStickyClick"
    /\ <<"b", "dragStop", "None">> \in emitted
    /\ Idle(interactives["b"])
    /\ MouseId \in idsForRemoval
    /\ enabled

\* The events of a gesture of the pointer the element holds, told by the
\* drag type the element is in: None until a move reaches minDragDist, Held
\* from the dragStart of that move to the release
GestureStages(item, id) ==
    LET type == interactives[item].currentDragType
    IN /\ \A far \in BOOLEAN :
             PointerMove(id, far) =>
                /\ (type = "None" /\ far) =>
                      /\ EventsOf(item) = {<<item, "dragStart", "Held">>,
                                           <<item, "dragMove", "Held">>}
                      /\ interactives'[item].currentDragType = "Held"
                /\ (type = "None" /\ ~far) =>
                      /\ EventsOf(item) = {}
                      /\ interactives'[item].currentDragType = "None"
                /\ type = "Held" =>
                      /\ EventsOf(item) = {<<item, "dragMove", "Held">>}
                      /\ interactives'[item].currentDragType = "Held"
       /\ PointerUp(id) =>
             /\ Idle(interactives'[item])
             /\ type = "Held" =>
                   /\ DragEvents(item, {"dragStop"}) # {}
                   /\ EventsOf(item) = DragEvents(item, {"dragStop"})
             /\ type = "None" =>
                   EventsOf(item) \subseteq {<<item, "onActivate", "None">>}

\* dragStart opens the drag of a gesture once: it is emitted only in a step
\* that takes the element from no drag to Held, and the element leaves Held
\* only as it lets go of its pointer
OneStart(item) ==
    /\ DragEvents(item, {"dragStart"}) # {} =>
          /\ interactives[item].currentDragType = "None"
          /\ interactives'[item].currentDragType = "Held"
    /\ ( /\ interactives[item].currentDragType = "Held"
         /\ interactives'[item].currentDragType # "Held" ) =>
          Idle(interactives'[item])

\* C34: for an element with the DragOrClick strategy, each press-to-release
\* gesture emits either exactly one dragStart, then dragMoves, then exactly
\* one dragStop, when some move reached minDragDist from the press point, or
\* at most one onActivate and no drag event otherwise; a single gesture never
\* emits both a drag event and onActivate.
C34_DragOrClick ==
    [][\A item \in PointerItems, id \in PointerIds :
          ( /\ interactives[item].draggable = "DragOrClick"
            /\ interactives[item].activePointerId = id ) =>
             GestureStages(item, id)]_vars

\* C34 while the manager is enabled
C34_WhileEnabled ==
    [][\A item \in PointerItems, id \in PointerIds :
          ( /\ enabled
            /\ interactives[item].draggable = "DragOrClick"
            /\ interactives[item].activePointerId = id ) =>
             GestureStages(item, id)]_vars

\* C34, the single dragStart, whatever the manager's state
C34_OneStart ==
    [][\A item \in PointerItems :
          interactives[item].draggable = "DragOrClick" => OneStart(item)]_vars

\* A drag of a DragOrClick element has ended with its dragStop
C34_Dragged ==
    /\ interactives["b"].draggable = "DragOrClick"
    /\ <<"b", "dragStop", "None">> \in emitted
    /\ Idle(interactives["b"])

\* C35: generating the current context (through activateContext, enterGroup,
\* popContext or setBaseline) terminates even when group child contexts
\* reference each other cyclically, i.e. when some group is its own
\* descendant.
C35_GenerationTerminates == pc # "overflow"

\* The lists a generation goes through hold a cyclic group: the baseline or
\* a context of the stack
CycleInReach ==
    \/ \E k \in DOMAIN contexts : Range(contexts[k].items) \cap CyclicGroups # {}
    \/ Range(baselineContext.prepend \o baselineContext.append) \cap CyclicGroups # {}

\* C35 for the groups that are no descendants of themselves: a generation
\* ends unless it meets a cyclic group
C35_AcyclicTerminates == pc = "overflow" => CycleInReach

\* A generation over a group without cycle has ended with the group's
\* children in the extended family
C35_GroupGenerated ==
    /\ pc = "idle"
    /\ Includes(currentContext.items, "g")
    /\ Includes(currentContext.extendedFamily, "c")

\* Each of the four operations has met the recursion without end
C35_ByActivate == pc = "overflow" /\ lastCall \in {"other", "reactivateTop", "reactivateBelow"}

\* The cells of row y in column order
RowCells(g, y) ==
    LET xs == { x \in 0..(g.gridWidth - 1) : <<x, y>> \in g.cells }
        F[k \in 0..g.gridWidth] ==
           IF k = 0 THEN <<>>
           ELSE IF (k - 1) \in xs THEN Append(F[k - 1], Cell(k - 1, y)) ELSE F[k - 1]
    IN F[g.gridWidth]

\* The row groups are as stated: one for each row that has a cell, holding
\* the row's cells in column order, and each cell is in exactly one of them
RowsAsStated(g) ==
    /\ ~g.thrown
    /\ \A y \in 0..(g.gridHeight - 1) :
          RowCells(g, y) # <<>> =>
             Cardinality({ i \in DOMAIN g.rows : g.rows[i] = RowCells(g, y) }) = 1
    /\ \A p \in g.cells :
          Cardinality({ i \in DOMAIN g.rows : Includes(g.rows[i], Cell(p[1], p[2])) }) = 1

\* C36: a GridContext with tabSelection 'row' over a grid of any width and
\* height (not only square grids) offers, for each row that has at least one
\* cell, exactly one row group whose children are exactly the cells of the
\* row in column order; every cell of the grid belongs to exactly one row
\* group.
C36_RowGroups == gridContext.tabSelection = "row" => RowsAsStated(gridContext)

\* C36 for the square grids
C36_SquareGrids ==
    (gridContext.tabSelection = "row" /\ gridContext.gridWidth = gridContext.gridHeight)
       => RowsAsStated(gridContext)

\* On a grid wider than high the constructor ends, with the cells of the
\* columns beyond the height in no row group
C36_WideGrids ==
    (gridContext.tabSelection = "row" /\ gridContext.gridWidth > gridContext.gridHeight)
       => /\ ~gridContext.thrown
          /\ Len(gridContext.rows) = gridContext.gridWidth
          /\ \A p \in gridContext.cells :
                p[1] >= gridContext.gridHeight =>
                   \A i \in DOMAIN gridContext.rows :
                      ~Includes(gridContext.rows[i], Cell(p[1], p[2]))

\* On a grid higher than wide the constructor throws
C36_HighGrids ==
    (gridContext.tabSelection = "row" /\ gridContext.gridWidth < gridContext.gridHeight)
       => gridContext.thrown

\* A full square grid has its two rows
C36_SquareBuilt ==
    /\ gridContext.tabSelection = "row"
    /\ gridContext.rows = <<<<Cell(0, 0), Cell(1, 0)>>, <<Cell(0, 1), Cell(1, 1)>>>>

\* The element holds a pointer, a StickyTap drag excepted
Holds(item) ==
    /\ interactives[item].activePointerId # NoPointer
    /\ interactives[item].currentDragType # "StickyTap"

\* C37: whenever an Interactive holds a pointer (from its accepted
\* pointer-down until the matching release, cancel, cancelDrag or dispose, a
\* StickyTap drag excepted), the pointer-claim registry reports that pointer
\* id as not free, under every interleaving of pointer events on other
\* elements, visible/enabled changes and the deferred release callback.
C37_HeldIsClaimed ==
    \A item \in PointerItems : Holds(item) => interactives[item].activePointerId \in used

\* An accepted pointer-down claims the id: the registry reports it as not
\* free right after the event
C37_ClaimedAtDown ==
    [][\A item \in PointerItems, id \in PointerIds :
          ( /\ interactives[item].activePointerId = NoPointer
            /\ interactives'[item].activePointerId = id
            /\ PointerDown(id, item) ) => id \in used']_vars

\* Only the deferred callback takes ids out of the registry, and it takes
\* out every id freed since it ran last, held again or not
C37_OnlyDeferred ==
    [][/\ ~(used \subseteq used') => DeleteIdsLater
       /\ DeleteIdsLater => used' = used \ idsForRemoval]_vars

\* An element holds a pointer that is down, and the registry reports the id
\* as free
C37_HeldAndFree ==
    \E item \in PointerItems :
       /\ Holds(item)
       /\ interactives[item].activePointerId \in pressed
       /\ interactives[item].activePointerId \notin used

\* The top of the stack is the sub-group context of a column of the grid,
\* entered from the grid's own context right below it
SubGroupOnTop ==
    LET n == Len(contexts)
    IN /\ n >= 2
       /\ contexts[n].group \in DOMAIN gridContext.columns
       /\ contexts[n - 1].name = gridContext.name

\* The grid's own stack entry holds the flat list of all cells
FlatOnStack ==
    \E k \in DOMAIN contexts :
       /\ contexts[k].name = gridContext.name
       /\ contexts[k].items = allItems(gridContext)

\* C38: GridContext's tracked mode always agrees with the manager's stack:
\* activeContext is singleLine only while the top of the stack is a row or
\* column sub-group context entered from this grid, and all only while the
\* grid's own stack entry holds the flat cell list, however the sub-group or
\* the grid context was left (exit sentinel, ESC, popContext, re-activation).
C38_ModeAgrees ==
    gridContext.tabSelection = "column" =>
       /\ gridContext.activeContext = "singleLine" => SubGroupOnTop
       /\ gridContext.activeContext = "all" => FlatOnStack

\* The steps that keep the mode true: a column group that is activated
\* leaves singleLine with its sub-group on top, and a successful arrow move
\* from a state whose mode is true leaves all with the flat list
C38_EnterAndMove ==
    [][/\ ( /\ \E x \in 0..(MaxGridWidth - 1) : ActivateColumn(x)
            /\ gridContext'.activeContext = "singleLine"
            /\ gridContext.activeContext # "singleLine" ) => SubGroupOnTop'
       /\ (GridPlace > 0 /\ ActiveContextTrue /\ SuccessfulMove) =>
             (gridContext'.activeContext = "all" /\ FlatOnStack')]_vars

\* Leaving the sub-group or the grid's context never changes the mode: ESC,
\* popContext and activateContext leave activeContext as it was
C38_LeavingKeepsMode ==
    [][(Esc \/ PopContext("", FALSE) \/ ActivateContext(GridItems(gridContext), FALSE)) =>
          gridContext'.activeContext = gridContext.activeContext]_vars

\* The mode is singleLine and the grid's own context is the top
C38_StaleSingleLine ==
    /\ gridContext.activeContext = "singleLine"
    /\ Len(contexts) = 1
    /\ contexts[1].name = gridContext.name



\* The element of the controller is in a drag of the pointer
PointerDragging == interactives[Dragged].currentDragType # "None"

\* A drag of the UnifiedDrag is in progress: its StandardDrag's, which lasts
\* as long as the element's, or its KeyboardFreeDrag's
UnifiedDragging ==
    /\ controller.kind = "UnifiedDrag"
    /\ PointerDragging \/ keyboardContext

\* C39: a UnifiedDrag never has two drags in progress at once: while a drag
\* it started is neither complete nor cancelled, no step makes it emit a
\* second dragStarted, whatever the interleaving of pointer gestures and
\* keyboard activations on the shared element.
C39_OneDragAtATime ==
    [][UnifiedDragging => ControllerEvents({"dragStarted"})' = {}]_vars

\* Each of the two controllers alone starts no drag during a drag of its own
C39_OneDragEach ==
    [][controller.kind = "UnifiedDrag" =>
          /\ PointerDragging =>
                \A e \in ControllerEvents({"dragStarted"})' : e[3] = "Keyboard"
          /\ keyboardContext => <<"keyboard", "dragStarted", "None">> \notin emitted']_vars

\* The step that starts a drag of one controller leaves the drag of the
\* other as it was
C39_StartKeepsOther ==
    [][(UnifiedDragging /\ ControllerEvents({"dragStarted"})' # {}) =>
          /\ PointerDragging => PointerDragging'
          /\ keyboardContext => keyboardContext']_vars

\* The keys' drag started during a sticky click drag of the pointer
C39_BothInProgress ==
    /\ controller.kind = "UnifiedDrag"
    /\ interactives[Dragged].currentDragType = "StickyClick"
    /\ keyboardContext
    /\ <<"controller", "dragStarted", "Keyboard">> \in emitted

\* The pointer's drag started during a drag of the keys
C39_PointerDuringKeys ==
    /\ controller.kind = "UnifiedDrag"
    /\ keyboardContext
    /\ <<"controller", "dragStarted", "Held">> \in emitted


\* The StandardDrag emits dragComplete in the step
Completes ==
    /\ controller.kind = "StandardDrag"
    /\ ControllerEvents({"dragComplete"})' # {}

\* C40: every dragComplete a StandardDrag emits is preceded by a dragStarted
\* for the same gesture, also when the drag reached the controller's element
\* through transferDrag: at each dragComplete the controller's
\* currentDragType, which onDragStart sets and onDragEnd resets, is set.
C40_CompleteAfterStart == [][Completes => currentDrag # "None"]_vars

\* A dragComplete is the answer to the element's dragStop, which ends a drag
\* of the element, and leaves the controller's currentDragType null
C40_CompleteByStop ==
    [][Completes =>
          /\ PointerDragging
          /\ <<Dragged, "dragStop", "None">> \in emitted'
          /\ currentDrag' = "None" /\ ~PointerDragging']_vars

\* Each dragStart of the element makes the controller emit dragStarted with
\* the type of the element's drag
C40_StartByStart ==
    [][(controller.kind = "StandardDrag" /\ Emits(Dragged, "dragStart")) =>
          /\ currentDrag' = interactives'[Dragged].currentDragType
          /\ <<"controller", "dragStarted", currentDrag'>> \in emitted']_vars

\* The controller has started each drag its element is in
StartedIfDragging == PointerDragging => currentDrag # "None"

\* Only transferDrag to the controller's element puts it in a drag the
\* controller has not started: every other step keeps the two together
C40_OnlyTransferBreaks ==
    [][(/\ controller.kind = "StandardDrag"
        /\ StartedIfDragging
        /\ ~TransferDrag(Recipient, Dragged)) => StartedIfDragging']_vars

\* The controller's element holds a drag that reached it through
\* transferDrag: the controller has emitted no dragStarted for it
C40_DragByTransfer ==
    /\ controller.kind = "StandardDrag"
    /\ interactives[Dragged].currentDragType = "Held"
    /\ interactives[Dragged].activePointerId \in pressed
    /\ currentDrag = "None"

====
